---------------------------- MODULE Spec2Model ----------------------------
(***************************************************************************)
(* VERYFIN API: the savings-streak progress engine (storage.ts,            *)
(* DatabaseStorage.updateStreakProgress), the owner-scoped CRUD handlers   *)
(* (routes.ts over storage.ts), the stand-alone server (index.ts) and the  *)
(* legacy route table (routes_old.ts).                                     *)
(*                                                                         *)
(* Modelling conventions                                                   *)
(*  - saveDate is an ISO calendar date "YYYY-MM-DD"; it is modelled by its *)
(*    day number d, and new Date(saveDate).getTime() by DateMs(d), UTC     *)
(*    midnight of that day.                                                *)
(*  - Time is counted in ticks of half a day (MsPerDay ticks per day       *)
(*    instead of 86 400 000 ms), so that Math.floor really rounds.         *)
(*  - The server's local time zone has no daylight-saving shift, so        *)
(*    Date.setDate(getDate() - n) moves a timestamp by exactly n days.     *)
(*  - Money is counted in integer cents.                                   *)
(*  - A nullable column holds <<>> for NULL and <<v>> for the value v.     *)
(***************************************************************************)
EXTENDS Integers, Sequences, FiniteSets, TLC

VARIABLES
    app,            \* which server build runs: "routes", "index" or "old"
    now,            \* the clock, in ticks
    streaks,        \* table savings_streaks: id -> row
    entries,        \* table streak_entries: rows in insertion order
    nextStreakId,   \* AUTOINCREMENT counters
    nextEntryId,
    expenses,       \* table expenses: id -> row
    budgets,        \* table budgets: id -> row
    goals,          \* table goals: id -> row
    nextExpenseId,
    nextBudgetId,
    nextGoalId,
    procs,          \* in-flight POST /api/streaks/:id/entries requests
    users,          \* table users: id -> row (read by the auth handlers only)
    sessions,       \* the session store: sid -> id of the user it is bound to
    resp            \* the request handled last and its response

vars == <<app, now, streaks, entries, nextStreakId, nextEntryId, expenses,
          budgets, goals, nextExpenseId, nextBudgetId, nextGoalId, procs, users,
          sessions, resp>>

streakVars == <<streaks, entries, nextStreakId, nextEntryId>>
crudVars == <<expenses, budgets, goals, nextExpenseId, nextBudgetId, nextGoalId>>

-----------------------------------------------------------------------------
(* Bounds and input domains *)

MaxEntries == 3         \* rows of streak_entries in one behaviour
MaxNow == 2             \* last tick of the clock
MaxLen == 3             \* entries handed to one direct recomputation
MaxRows == 2            \* rows created in one behaviour of the CRUD servers

Users == {"A", "B"}
NoUser == "anonymous"   \* a request that carries no valid session
Frequencies == {"daily", "weekly", "monthly"}
Amounts == {150, 275}
StreakIds == {1}                    \* ids the streak server hands out
Offsets == {0, 7, 14, 40}           \* saveDate = today - offset
EngineDays == -4 .. 1
EngineAmounts == {500}
StoredLongest == {0, 2, 5}            \* longestStreak stored before a direct recomputation

Null == <<>>
Some(v) == <<v>>

-----------------------------------------------------------------------------
(* The streak progress engine *)

MsPerDay == 2

\* new Date(entry.saveDate).getTime(): UTC midnight of the calendar day
DateMs(d) == d * MsPerDay

\* the calendar day a clock reading falls in
Today(t) == t \div MsPerDay

ExpectedGapSwapped(frequency) ==
    IF frequency = "monthly" THEN 7
    ELSE IF frequency = "weekly" THEN 30
    ELSE 1

\* let expectedGap = 1; 'weekly' -> 7; 'monthly' -> 30
ExpectedGap(frequency) ==
    IF frequency = "monthly" THEN 30
    ELSE IF frequency = "weekly" THEN 7
    ELSE 1

\* Math.floor((checkDate.getTime() - entryDate.getTime()) / (1000*60*60*24))
DaysDiff(checkDate, entryDate) == (checkDate - entryDate) \div MsPerDay

TotalSavedLast(es) == IF es = <<>> THEN 0 ELSE es[Len(es)].amount

\* entries.reduce((sum, entry) => sum + parseFloat(entry.amount), 0)
RECURSIVE TotalSaved(_)
TotalSaved(es) ==
    IF es = <<>> THEN 0
    ELSE TotalSaved(SubSeq(es, 1, Len(es) - 1)) + es[Len(es)].amount

\* Array.prototype.sort is stable: e goes behind every row that is not older
InsertDesc(sorted, e) ==
    LET k == Cardinality({i \in 1..Len(sorted) :
                            DateMs(sorted[i].saveDate) >= DateMs(e.saveDate)})
    IN  SubSeq(sorted, 1, k) \o <<e>> \o SubSeq(sorted, k + 1, Len(sorted))

EntriesAsStored(es) == es

\* entries.sort((a, b) => new Date(b.saveDate) - new Date(a.saveDate))
RECURSIVE SortedEntries(_)
SortedEntries(es) ==
    IF es = <<>> THEN <<>>
    ELSE InsertDesc(SortedEntries(SubSeq(es, 1, Len(es) - 1)), es[Len(es)])

RECURSIVE WalkStrict(_, _, _, _, _)
WalkStrict(sortedEntries, i, checkDate, expectedGap, currentStreak) ==
    IF i > Len(sortedEntries) THEN currentStreak
    ELSE LET entryDate == DateMs(sortedEntries[i].saveDate)
         IN  IF DaysDiff(checkDate, entryDate) < expectedGap
             THEN WalkStrict(sortedEntries, i + 1,
                             entryDate - expectedGap * MsPerDay,
                             expectedGap, currentStreak + 1)
             ELSE currentStreak

RECURSIVE WalkCursorAtEntry(_, _, _, _, _)
WalkCursorAtEntry(sortedEntries, i, checkDate, expectedGap, currentStreak) ==
    IF i > Len(sortedEntries) THEN currentStreak
    ELSE LET entryDate == DateMs(sortedEntries[i].saveDate)
         IN  IF DaysDiff(checkDate, entryDate) <= expectedGap
             THEN WalkCursorAtEntry(sortedEntries, i + 1, entryDate,
                                    expectedGap, currentStreak + 1)
             ELSE currentStreak

RECURSIVE WalkNotBeforeCursor(_, _, _, _, _)
WalkNotBeforeCursor(sortedEntries, i, checkDate, expectedGap, currentStreak) ==
    IF i > Len(sortedEntries) THEN currentStreak
    ELSE LET entryDate == DateMs(sortedEntries[i].saveDate)
         IN  IF /\ DaysDiff(checkDate, entryDate) <= expectedGap
                /\ DaysDiff(checkDate, entryDate) >= 0
             THEN WalkNotBeforeCursor(sortedEntries, i + 1,
                                      entryDate - expectedGap * MsPerDay,
                                      expectedGap, currentStreak + 1)
             ELSE currentStreak

\* the for loop over sortedEntries, from its i-th entry on
RECURSIVE Walk(_, _, _, _, _)
Walk(sortedEntries, i, checkDate, expectedGap, currentStreak) ==
    IF i > Len(sortedEntries) THEN currentStreak
    ELSE LET entryDate == DateMs(sortedEntries[i].saveDate)
         IN  IF DaysDiff(checkDate, entryDate) <= expectedGap
             THEN Walk(sortedEntries, i + 1,
                       entryDate - expectedGap * MsPerDay,
                       expectedGap, currentStreak + 1)
             ELSE currentStreak

\* let currentStreak = 0; ... checkDate = new Date(today)
CurrentStreak(frequency, sortedEntries, today) ==
    Walk(sortedEntries, 1, today, ExpectedGap(frequency), 0)

LongestStreakReset(currentStreak, stored) == currentStreak

LongestStreakStored(currentStreak, stored) == stored

\* Math.max(currentStreak, streak.longestStreak)
LongestStreak(currentStreak, stored) ==
    IF currentStreak > stored THEN currentStreak ELSE stored

\* sortedEntries.length > 0 ? sortedEntries[0].saveDate : null
LastSaveDate(sortedEntries) ==
    IF Len(sortedEntries) > 0 THEN Some(sortedEntries[1].saveDate) ELSE Null

ProgressSkipsEmpty(streak, es, today) ==
    IF es = <<>> THEN streak
    ELSE LET sortedEntries == SortedEntries(es)
             currentStreak == CurrentStreak(streak.frequency, sortedEntries, today)
         IN  [streak EXCEPT
                 !.currentStreak = currentStreak,
                 !.longestStreak = LongestStreak(currentStreak, streak.longestStreak),
                 !.totalSaved = TotalSaved(es),
                 !.lastSaveDate = LastSaveDate(sortedEntries)]

\* the values written by .set({currentStreak, longestStreak, totalSaved, lastSaveDate})
Progress(streak, es, today) ==
    LET sortedEntries == SortedEntries(es)
        currentStreak == CurrentStreak(streak.frequency, sortedEntries, today)
    IN  [streak EXCEPT
            !.currentStreak = currentStreak,
            !.longestStreak = LongestStreak(currentStreak, streak.longestStreak),
            !.totalSaved = TotalSaved(es),
            !.lastSaveDate = LastSaveDate(sortedEntries)]

-----------------------------------------------------------------------------
(* The store (storage.ts, DatabaseStorage) *)

\* where(and(eq(table.id, id), eq(table.userId, userId)))
Owned(table, id, userId) == id \in DOMAIN table /\ table[id].userId = userId

GetSavingsStreakAnyOwner(id, userId) ==
    IF id \in DOMAIN streaks THEN Some(streaks[id]) ELSE Null

GetSavingsStreak(id, userId) ==
    IF Owned(streaks, id, userId) THEN Some(streaks[id]) ELSE Null

GetStreakEntries(streakId) ==
    SelectSeq(entries, LAMBDA e : e.streakId = streakId)

\* one row more or less in a table
SpreadBodyLast(body, field, value) ==
    [f \in DOMAIN body \cup {field} |-> IF f \in DOMAIN body THEN body[f] ELSE value]

\* { ...req.body, field }: the handler's value replaces what the body carries
Spread(body, field, value) ==
    [f \in DOMAIN body \cup {field} |-> IF f = field THEN value ELSE body[f]]

Put(table, id, row) == [i \in DOMAIN table \cup {id} |-> IF i = id THEN row ELSE table[i]]
DropNothing(table, ids) == table
Drop(table, ids) == [i \in DOMAIN table \ ids |-> table[i]]

\* updateStreakProgress run without interruption: the table it leaves
UpdateStreakProgress(table, es, streakId, userId, today) ==
    IF ~Owned(table, streakId, userId) THEN table
    ELSE Put(table, streakId,
             Progress(table[streakId],
                      SelectSeq(es, LAMBDA e : e.streakId = streakId), today))

FreshStreak(userId, frequency) ==
    [userId |-> userId, frequency |-> frequency, currentStreak |-> 0,
     longestStreak |-> 0, totalSaved |-> 0, lastSaveDate |-> Null]

EmptyTable == [i \in {} |-> 0]

\* what a handler answered: res.status(status).json({message}) or .json(rows)
Resp(op, user, id, status, message, rows) ==
    [op |-> op, user |-> user, id |-> id, status |-> status,
     message |-> message, rows |-> rows]
NoResp == Resp("none", NoUser, 0, 0, "", <<>>)

\* an answer together with the req.body it answers
WithBody(r, body) ==
    [op |-> r.op, user |-> r.user, id |-> r.id, status |-> r.status,
     message |-> r.message, rows |-> r.rows, body |-> body]

\* isAuthenticated (auth.ts): no session, no handler
Unauthenticated(op, id) == Resp(op, NoUser, id, 401, "Nao autenticado", <<>>)

-----------------------------------------------------------------------------
(* routes.ts: the streak handlers *)

\* insertSavingsStreakSchema.parse({...req.body, userId})
StreakBodies == {[frequency |-> f] : f \in Frequencies} \cup {[challengeName |-> "x"]}
ValidStreak(body) == "frequency" \in DOMAIN body

\* POST /api/streaks
PostStreak(u, body) ==
    /\ app = "routes"
    /\ nextStreakId \in StreakIds
    /\ IF u = NoUser
       THEN /\ resp' = Unauthenticated("POST /api/streaks", 0)
            /\ UNCHANGED streakVars
       ELSE IF ~ValidStreak(body)
       THEN /\ resp' = Resp("POST /api/streaks", u, 0, 400, "Invalid streak data", <<>>)
            /\ UNCHANGED streakVars
       ELSE LET row == FreshStreak(Spread(body, "userId", u).userId, body.frequency)
            IN  /\ streaks' = Put(streaks, nextStreakId, row)
                /\ nextStreakId' = nextStreakId + 1
                /\ resp' = Resp("POST /api/streaks", u, nextStreakId, 201, "", <<row>>)
                /\ UNCHANGED <<entries, nextEntryId>>
    /\ UNCHANGED <<app, users, sessions, now, procs>>
    /\ UNCHANGED crudVars

\* req.body of POST /api/streaks/:id/entries, sent on calendar day today
EntryBodies(today) ==
    {[amount |-> 150, saveDate |-> today - o] : o \in Offsets}
    \cup {[amount |-> 275, saveDate |-> today]}
    \cup {[saveDate |-> today]}
    \cup {[amount |-> 150, saveDate |-> today, streakId |-> 99]}
    \cup {[amount |-> 150, saveDate |-> today, wrongType |-> TRUE]}

ValidEntryFieldsPresent(body) == {"amount", "saveDate"} \subseteq DOMAIN body

\* insertStreakEntrySchema: amount and saveDate are required, each of its type
ValidEntry(body) ==
    /\ {"amount", "saveDate"} \subseteq DOMAIN body
    /\ "wrongType" \notin DOMAIN body

\* insertStreakEntrySchema.parse({...req.body, streakId}) and the row inserted
EntryRow(id, streakId, body) ==
    [id |-> id, streakId |-> Spread(body, "streakId", streakId).streakId,
     amount |-> body.amount,
     saveDate |-> body.saveDate]

\* POST /api/streaks/:id/entries, handled without interruption
PostEntry(u, streakId, body) ==
    /\ app = "routes"
    /\ Len(entries) < MaxEntries
    /\ IF u = NoUser
       THEN /\ resp' = Unauthenticated("POST /api/streaks/:id/entries", streakId)
            /\ UNCHANGED streakVars
       ELSE IF GetSavingsStreak(streakId, u) = Null
       THEN /\ resp' = WithBody(Resp("POST /api/streaks/:id/entries", u,
                                     streakId, 404, "Streak not found", <<>>),
                                body)
            /\ UNCHANGED streakVars
       ELSE IF ~ValidEntry(body)
       THEN /\ resp' = WithBody(Resp("POST /api/streaks/:id/entries", u,
                                     streakId, 400, "Invalid entry data", <<>>),
                                body)
            /\ UNCHANGED streakVars
       ELSE LET entry == EntryRow(nextEntryId, streakId, body)
            IN  /\ entries' = Append(entries, entry)
                /\ nextEntryId' = nextEntryId + 1
                /\ streaks' = UpdateStreakProgress(streaks, Append(entries, entry),
                                                   streakId, u, now)
                /\ resp' = WithBody(Resp("POST /api/streaks/:id/entries", u,
                                         streakId, 201, "", <<entry>>), body)
                /\ UNCHANGED nextStreakId
    /\ UNCHANGED <<app, users, sessions, now, procs>>
    /\ UNCHANGED crudVars

\* GET /api/streaks/:id/entries
GetEntries(u, streakId) ==
    /\ app = "routes"
    /\ resp' = IF u = NoUser
               THEN Unauthenticated("GET /api/streaks/:id/entries", streakId)
               ELSE IF GetSavingsStreak(streakId, u) = Null
               THEN Resp("GET /api/streaks/:id/entries", u, streakId, 404,
                         "Streak not found", <<>>)
               ELSE Resp("GET /api/streaks/:id/entries", u, streakId, 200, "",
                         GetStreakEntries(streakId))
    /\ UNCHANGED <<app, users, sessions, now, procs>>
    /\ UNCHANGED streakVars
    /\ UNCHANGED crudVars

\* time passes between two requests
Tick ==
    /\ now < MaxNow
    /\ now' = now + 1
    /\ UNCHANGED <<app, users, sessions, procs, resp>>
    /\ UNCHANGED streakVars
    /\ UNCHANGED crudVars

StreakInit ==
    /\ app = "routes"
    /\ now = 0
    /\ streaks = EmptyTable
    /\ entries = <<>>
    /\ nextStreakId = 1
    /\ nextEntryId = 1
    /\ expenses = EmptyTable
    /\ budgets = EmptyTable
    /\ goals = EmptyTable
    /\ nextExpenseId = 1
    /\ nextBudgetId = 1
    /\ nextGoalId = 1
    /\ procs = EmptyTable
    /\ users = EmptyTable
    /\ sessions = EmptyTable
    /\ resp = NoResp

StreakNext ==
    \/ \E u \in Users \cup {NoUser}, body \in StreakBodies : PostStreak(u, body)
    \/ \E u \in Users \cup {NoUser}, id \in 1..nextStreakId,
          body \in EntryBodies(Today(now)) : PostEntry(u, id, body)
    \/ \E u \in Users \cup {NoUser}, id \in 1..nextStreakId : GetEntries(u, id)
    \/ Tick

\* requests handled one after another by the routes.ts server
SpecStreak == StreakInit /\ [][StreakNext]_vars

-----------------------------------------------------------------------------
(* C1: across any sequence of entry additions handled one after another,   *)
(* the stored longestStreak of every streak never decreases from one state *)
(* to the next.                                                            *)
LongestStreakNeverDecreases ==
    [][\A s \in DOMAIN streaks :
          s \in DOMAIN streaks'
          => streaks'[s].longestStreak >= streaks[s].longestStreak]_vars

\* an entry addition after which the ratchet holds longestStreak above currentStreak
LongestStreakRatcheted ==
    /\ resp.op = "POST /api/streaks/:id/entries"
    /\ resp.status = 201
    /\ streaks[resp.id].longestStreak > streaks[resp.id].currentStreak

(* C2: after every completed entry addition (requests handled one at a     *)
(* time) the stored totalSaved of a streak is the sum of the amounts of    *)
(* all its entries, and recomputing again without a new entry leaves       *)
(* totalSaved as it is.                                                    *)
RECURSIVE SumOver(_)
SumOver(S) ==
    IF S = {} THEN 0
    ELSE LET i == CHOOSE i \in S : TRUE
         IN  entries[i].amount + SumOver(S \ {i})

EntryAmountSum(s) == SumOver({i \in 1..Len(entries) : entries[i].streakId = s})

DatesOf(es, s) == {es[i].saveDate : i \in {j \in 1..Len(es) : es[j].streakId = s}}
CountOf(es, s) == Cardinality({j \in 1..Len(es) : es[j].streakId = s})

WeeklyScenario ==
    [][(/\ resp'.op = "POST /api/streaks/:id/entries"
        /\ resp'.status = 201
        /\ streaks[resp'.id].frequency = "weekly")
       => LET s == resp'.id
              D == Today(now)
          IN  /\ (CountOf(entries', s) = 2 /\ DatesOf(entries', s) = {D - 7, D - 14})
                 => (streaks'[s].currentStreak = 2 /\ streaks'[s].longestStreak = 2)
              /\ (/\ CountOf(entries, s) = 2
                  /\ DatesOf(entries, s) = {D - 7, D - 14}
                  /\ CountOf(entries', s) = 3
                  /\ resp'.rows[1].saveDate = D - 40)
                 => (streaks'[s].currentStreak = 2 /\ streaks'[s].longestStreak = 2)]_vars

\* the third entry of the scenario has just been added
WeeklyScenarioDone ==
    /\ resp.op = "POST /api/streaks/:id/entries"
    /\ resp.status = 201
    /\ streaks[resp.id].frequency = "weekly"
    /\ Len(entries) = 3
    /\ {entries[1].saveDate, entries[2].saveDate} = {Today(now) - 7, Today(now) - 14}
    /\ entries[3].saveDate = Today(now) - 40
    /\ streaks[resp.id].currentStreak = 2

-----------------------------------------------------------------------------
(* The engine called directly: storage.updateStreakProgress(streakId,      *)
(* userId) on a streak row and an entry list drawn from bounded sets.      *)

\* a row as an earlier recomputation left it, with longestStreak = longest
StaleStreak(frequency, longest) ==
    [userId |-> "A", frequency |-> frequency, currentStreak |-> longest,
     longestStreak |-> longest, totalSaved |-> 100 * longest,
     lastSaveDate |-> IF longest > 0 THEN Some(-9) ELSE Null]

EngineInit ==
    /\ app = "routes"
    /\ now \in 0..MaxNow
    /\ \E f \in Frequencies, longest \in StoredLongest :
          streaks = Put(EmptyTable, 1, StaleStreak(f, longest))
    /\ \E n \in 0..MaxLen :
          \E ds \in [1..n -> EngineDays] :
             entries = [i \in 1..n |->
                          [id |-> i, streakId |-> 1,
                           amount |-> CHOOSE a \in EngineAmounts : TRUE,
                           saveDate |-> ds[i]]]
    /\ nextStreakId = 2
    /\ nextEntryId = Len(entries) + 1
    /\ expenses = EmptyTable
    /\ budgets = EmptyTable
    /\ goals = EmptyTable
    /\ nextExpenseId = 1
    /\ nextBudgetId = 1
    /\ nextGoalId = 1
    /\ procs = EmptyTable
    /\ users = EmptyTable
    /\ sessions = EmptyTable
    /\ resp = NoResp

\* await storage.updateStreakProgress(streakId, userId)
EngineRecompute(u) ==
    /\ streaks' = UpdateStreakProgress(streaks, entries, 1, u, now)
    /\ resp' = Resp("updateStreakProgress", u, 1, 0, "",
                    IF Owned(streaks, 1, u) THEN <<streaks'[1]>> ELSE <<>>)
    /\ UNCHANGED <<app, users, sessions, now, entries, nextStreakId, nextEntryId, procs>>
    /\ UNCHANGED crudVars

EngineNext == \E u \in Users : EngineRecompute(u)

SpecEngine == EngineInit /\ [][EngineNext]_vars

\* the recomputation has run on the streak, as its owner
Recomputed == resp.op = "updateStreakProgress" /\ resp.rows # <<>>

\* the entries fall on Len(entries) consecutive calendar days, one per day
ConsecutiveDays ==
    LET ds == {entries[i].saveDate : i \in 1..Len(entries)}
    IN  /\ Len(entries) >= 1
        /\ Cardinality(ds) = Len(entries)
        /\ \A d \in ds : \A e \in ds : d - e < Len(entries)

LatestDay == CHOOSE d \in {entries[i].saveDate : i \in 1..Len(entries)} :
                \A i \in 1..Len(entries) : entries[i].saveDate <= d

(* C6 as stated: for a daily streak whose N entries fall on N consecutive  *)
(* calendar days, recomputation yields currentStreak = N.                  *)
ConsecutiveDaysAllCounted ==
    (Recomputed /\ streaks[1].frequency = "daily" /\ ConsecutiveDays)
    => streaks[1].currentStreak = Len(entries)

(* C6 amended: for a daily streak whose N entries fall on N consecutive    *)
(* calendar days, the most recent of them today, yesterday or later,       *)
(* recomputation yields currentStreak = N.                                 *)
RecentConsecutiveDaysAllCounted ==
    (/\ Recomputed
     /\ streaks[1].frequency = "daily"
     /\ ConsecutiveDays
     /\ LatestDay >= Today(now) - 1)
    => streaks[1].currentStreak = Len(entries)

\* three consecutive days ending yesterday, all counted
ThreeDaysUpToYesterday ==
    /\ Recomputed
    /\ streaks[1].frequency = "daily"
    /\ Len(entries) = 3
    /\ ConsecutiveDays
    /\ LatestDay = Today(now) - 1
    /\ streaks[1].currentStreak = 3

(* C7: for a daily streak, a gap of two or more days between two           *)
(* successive entries (saveDate descending) breaks the streak: the entry   *)
(* on the older side of the gap and every entry before it are not counted. *)
GapOfTwoDaysBreaks ==
    (Recomputed /\ streaks[1].frequency = "daily")
    => LET sorted == SortedEntries(entries)
       IN  \A i \in 1..(Len(sorted) - 1) :
              sorted[i].saveDate - sorted[i + 1].saveDate >= 2
              => streaks[1].currentStreak <= i

(* C9: recomputing a streak that has no entries yields currentStreak = 0,  *)
(* totalSaved = 0 and lastSaveDate unset, and leaves longestStreak at the  *)
(* value stored before.                                                    *)
EmptyStreakRecomputed ==
    [][(/\ resp'.op = "updateStreakProgress"
        /\ resp'.rows # <<>>
        /\ GetStreakEntries(1) = <<>>)
       => /\ streaks'[1].currentStreak = 0
          /\ streaks'[1].totalSaved = 0
          /\ streaks'[1].lastSaveDate = Null
          /\ streaks'[1].longestStreak = streaks[1].longestStreak]_vars

\* a streak without entries whose stored longestStreak was 2 has been recomputed
EmptyStreakKeepsLongest ==
    /\ Recomputed
    /\ entries = <<>>
    /\ streaks[1].longestStreak = 2
    /\ streaks[1].currentStreak = 0
    /\ streaks[1].lastSaveDate = Null

-----------------------------------------------------------------------------
(* Two POST /api/streaks/:id/entries requests in flight at once. A handler *)
(* gives up control at every await, that is at each call of the store:     *)
(* getSavingsStreak, addStreakEntry, and inside updateStreakProgress       *)
(* getSavingsStreak, getStreakEntries and the UPDATE. Each statement is    *)
(* atomic; the statements of the two requests interleave freely.           *)

RaceProcs == {1, 2}

RaceInit ==
    /\ app = "routes"
    /\ now = 0
    /\ \E f \in Frequencies : streaks = Put(EmptyTable, 1, FreshStreak("A", f))
    /\ entries = <<>>
    /\ nextStreakId = 2
    /\ nextEntryId = 1
    /\ expenses = EmptyTable
    /\ budgets = EmptyTable
    /\ goals = EmptyTable
    /\ nextExpenseId = 1
    /\ nextBudgetId = 1
    /\ nextGoalId = 1
    /\ procs = EmptyTable
    /\ users = EmptyTable
    /\ sessions = EmptyTable
    /\ resp = NoResp

RaceOp == "POST /api/streaks/:id/entries"

Proc(pc, u, streakId, body, streak, es, status) ==
    [pc |-> pc, user |-> u, streakId |-> streakId, body |-> body,
     streak |-> streak, es |-> es, status |-> status]

RaceFrame == UNCHANGED <<app, users, sessions, now, nextStreakId>> /\ UNCHANGED crudVars

\* isAuthenticated, then the handler up to its first await
RaceArrive(p, u, streakId, body) ==
    /\ p \notin DOMAIN procs
    /\ IF u = NoUser
       THEN /\ procs' = Put(procs, p, Proc("done", u, streakId, body, Null, <<>>, 401))
            /\ resp' = Unauthenticated(RaceOp, streakId)
       ELSE /\ procs' = Put(procs, p, Proc("verify", u, streakId, body, Null, <<>>, 0))
            /\ UNCHANGED resp
    /\ UNCHANGED <<streaks, entries, nextEntryId>>
    /\ RaceFrame

\* const streak = await storage.getSavingsStreak(streakId, userId); then the parse
RaceVerify(p) ==
    /\ p \in DOMAIN procs
    /\ procs[p].pc = "verify"
    /\ LET r == procs[p]
       IN  IF GetSavingsStreak(r.streakId, r.user) = Null
           THEN /\ procs' = Put(procs, p, [r EXCEPT !.pc = "done", !.status = 404])
                /\ resp' = Resp(RaceOp, r.user, r.streakId, 404, "Streak not found", <<>>)
           ELSE IF ~ValidEntry(r.body)
           THEN /\ procs' = Put(procs, p, [r EXCEPT !.pc = "done", !.status = 400])
                /\ resp' = Resp(RaceOp, r.user, r.streakId, 400, "Invalid entry data", <<>>)
           ELSE /\ procs' = Put(procs, p, [r EXCEPT !.pc = "insert"])
                /\ UNCHANGED resp
    /\ UNCHANGED <<streaks, entries, nextEntryId>>
    /\ RaceFrame

\* const entry = await storage.addStreakEntry(validatedData)
RaceInsert(p) ==
    /\ p \in DOMAIN procs
    /\ procs[p].pc = "insert"
    /\ entries' = Append(entries, EntryRow(nextEntryId, procs[p].streakId, procs[p].body))
    /\ nextEntryId' = nextEntryId + 1
    /\ procs' = Put(procs, p, [procs[p] EXCEPT !.pc = "readStreak"])
    /\ UNCHANGED <<streaks, resp>>
    /\ RaceFrame

\* updateStreakProgress: const streak = await this.getSavingsStreak(streakId, userId)
RaceReadStreak(p) ==
    /\ p \in DOMAIN procs
    /\ procs[p].pc = "readStreak"
    /\ LET r == procs[p]
           streak == GetSavingsStreak(r.streakId, r.user)
       IN  procs' = Put(procs, p, [r EXCEPT !.pc = IF streak = Null THEN "respond"
                                                   ELSE "readEntries",
                                            !.streak = streak])
    /\ UNCHANGED <<streaks, entries, nextEntryId, resp>>
    /\ RaceFrame

\* updateStreakProgress: const entries = await this.getStreakEntries(streakId)
RaceReadEntries(p) ==
    /\ p \in DOMAIN procs
    /\ procs[p].pc = "readEntries"
    /\ procs' = Put(procs, p, [procs[p] EXCEPT !.pc = "write",
                                               !.es = GetStreakEntries(procs[p].streakId)])
    /\ UNCHANGED <<streaks, entries, nextEntryId, resp>>
    /\ RaceFrame

\* updateStreakProgress: the values computed from what was read, then
\* await db.update(savingsStreaks).set({...}).where(and(eq(id), eq(userId)))
RaceWrite(p) ==
    /\ p \in DOMAIN procs
    /\ procs[p].pc = "write"
    /\ LET r == procs[p]
           computed == Progress(r.streak[1], r.es, now)
       IN  streaks' =
              IF Owned(streaks, r.streakId, r.user)
              THEN Put(streaks, r.streakId,
                       [streaks[r.streakId] EXCEPT
                           !.currentStreak = computed.currentStreak,
                           !.longestStreak = computed.longestStreak,
                           !.totalSaved = computed.totalSaved,
                           !.lastSaveDate = computed.lastSaveDate])
              ELSE streaks
    /\ procs' = Put(procs, p, [procs[p] EXCEPT !.pc = "respond"])
    /\ UNCHANGED <<entries, nextEntryId, resp>>
    /\ RaceFrame

\* res.status(201).json(entry)
RaceRespond(p) ==
    /\ p \in DOMAIN procs
    /\ procs[p].pc = "respond"
    /\ procs' = Put(procs, p, [procs[p] EXCEPT !.pc = "done", !.status = 201])
    /\ resp' = Resp(RaceOp, procs[p].user, procs[p].streakId, 201, "", <<>>)
    /\ UNCHANGED <<streaks, entries, nextEntryId>>
    /\ RaceFrame

RaceNext ==
    \/ \E p \in RaceProcs, u \in Users \cup {NoUser}, id \in {1, 2},
          body \in EntryBodies(Today(now)) : RaceArrive(p, u, id, body)
    \/ \E p \in RaceProcs : RaceVerify(p)
    \/ \E p \in RaceProcs : RaceInsert(p)
    \/ \E p \in RaceProcs : RaceReadStreak(p)
    \/ \E p \in RaceProcs : RaceReadEntries(p)
    \/ \E p \in RaceProcs : RaceWrite(p)
    \/ \E p \in RaceProcs : RaceRespond(p)

SpecRace == RaceInit /\ [][RaceNext]_vars

\* both requests have been answered
AllDone == \A p \in RaceProcs : p \in DOMAIN procs /\ procs[p].pc = "done"

(* C3: when two POST /api/streaks/:id/entries requests for one streak are  *)
(* interleaved at their store calls, then once both have completed the     *)
(* stored totalSaved, currentStreak and lastSaveDate are those a           *)
(* recomputation over all the entries of the streak gives.                 *)
NoEntryContributionLost ==
    AllDone
    => LET full == Progress(streaks[1], GetStreakEntries(1), now)
       IN  /\ streaks[1].totalSaved = full.totalSaved
           /\ streaks[1].currentStreak = full.currentStreak
           /\ streaks[1].lastSaveDate = full.lastSaveDate

-----------------------------------------------------------------------------
(* routes.ts over storage.ts: owner-scoped CRUD *)

\* zod: z.object strips keys the schema does not name
Strip(body, fields) == [f \in DOMAIN body \cap fields |-> body[f]]

\* .set(patch): the columns named by the patch change, the others stay
Merge(row, patch) == [f \in DOMAIN row |-> IF f \in DOMAIN patch THEN patch[f] ELSE row[f]]

\* schema.partial().parse(req.body): a present field of the wrong type fails
ValidPartial(body) == "wrongType" \notin DOMAIN body

RowsCreated ==
    (nextExpenseId - 1) + (nextBudgetId - 1) + (nextGoalId - 1) + (nextStreakId - 1)

ExpenseFields == {"userId", "amount", "category", "date"}
BudgetFields == {"userId", "category", "amount", "period"}
GoalFields == {"userId", "title", "targetAmount", "currentAmount", "status"}

ExpenseBodies ==
    {[amount |-> 10, category |-> "food", date |-> 5],
     [amount |-> 20, category |-> "food", date |-> 5, userId |-> "B"],
     [category |-> "food", date |-> 5]}
ExpensePatches ==
    {[amount |-> 20], [category |-> "rent", id |-> 9], [userId |-> "B"],
     [wrongType |-> TRUE]}
BudgetBodies == {[category |-> "food", amount |-> 100], [amount |-> 100]}
BudgetPatches == {[amount |-> 200], [wrongType |-> TRUE]}
GoalBodies ==
    {[title |-> "car", targetAmount |-> 1000],
     [title |-> "car", targetAmount |-> 1000, currentAmount |-> 500],
     [title |-> "car", targetAmount |-> 1000, currentAmount |-> 500, userId |-> "B"],
     [title |-> "car"]}
GoalPatches ==
    {[title |-> "bike"], [currentAmount |-> 0], [status |-> "done"],
     [wrongType |-> TRUE]}
\* wrongType: the amount is sent as a JSON string
ProgressBodies ==
    {[amount |-> 500], [amount |-> 0], [amount |-> -5], [note |-> "x"],
     [amount |-> 500, wrongType |-> TRUE]}

ExpenseFrame ==
    /\ UNCHANGED <<app, users, sessions, now, procs>>
    /\ UNCHANGED streakVars
    /\ UNCHANGED <<budgets, goals, nextBudgetId, nextGoalId>>

BudgetFrame ==
    /\ UNCHANGED <<app, users, sessions, now, procs>>
    /\ UNCHANGED streakVars
    /\ UNCHANGED <<expenses, goals, nextExpenseId, nextGoalId>>

GoalFrame ==
    /\ UNCHANGED <<app, users, sessions, now, procs>>
    /\ UNCHANGED streakVars
    /\ UNCHANGED <<expenses, budgets, nextExpenseId, nextBudgetId>>

\* GET /api/<entity>/:id: storage.get<Entity>(id, userId)
GetById(op, table, u, id, notFound) ==
    IF u = NoUser THEN Unauthenticated(op, id)
    ELSE IF ~Owned(table, id, u) THEN Resp(op, u, id, 404, notFound, <<>>)
    ELSE Resp(op, u, id, 200, "", <<table[id]>>)

StoreUpdateAllOwned(table, id, patch, userId) ==
    [g \in DOMAIN table |->
        IF table[g].userId = userId THEN Merge(table[g], patch) ELSE table[g]]

\* storage.update<Entity>(id, data, userId): the table it leaves
StoreUpdate(table, id, patch, userId) ==
    IF Owned(table, id, userId) THEN Put(table, id, Merge(table[id], patch)) ELSE table

\* storage.delete<Entity>(id, userId): the table it leaves
StoreDelete(table, id, userId) ==
    IF Owned(table, id, userId) THEN Drop(table, {id}) ELSE table

\* PUT /api/<entity>/:id: the response
PutResp(op, table, u, id, body, fields, invalid, notFound) ==
    WithBody(IF u = NoUser THEN Unauthenticated(op, id)
             ELSE IF ~ValidPartial(body) THEN Resp(op, u, id, 400, invalid, <<>>)
             ELSE IF ~Owned(table, id, u) THEN Resp(op, u, id, 404, notFound, <<>>)
             ELSE Resp(op, u, id, 200, "", <<Merge(table[id], Strip(body, fields))>>),
             body)

\* PUT /api/<entity>/:id: the table it leaves
PutTable(table, u, id, body, fields) ==
    IF u = NoUser \/ ~ValidPartial(body) THEN table
    ELSE StoreUpdate(table, id, Strip(body, fields), u)

\* DELETE /api/<entity>/:id: the response
DeleteResp(op, table, u, id, notFound) ==
    IF u = NoUser THEN Unauthenticated(op, id)
    ELSE IF ~Owned(table, id, u) THEN Resp(op, u, id, 404, notFound, <<>>)
    ELSE Resp(op, u, id, 204, "", <<>>)

\* DELETE /api/<entity>/:id: the table it leaves
DeleteTable(table, u, id) == IF u = NoUser THEN table ELSE StoreDelete(table, id, u)

GetExpense(u, id) ==
    /\ app = "routes"
    /\ resp' = GetById("GET /api/expenses/:id", expenses, u, id, "Expense not found")
    /\ UNCHANGED <<expenses, nextExpenseId>>
    /\ ExpenseFrame

\* insertExpenseSchema.parse({...req.body, userId}), storage.createExpense
PostExpense(u, body) ==
    /\ app = "routes"
    /\ RowsCreated < MaxRows
    /\ IF u = NoUser
       THEN /\ resp' = Unauthenticated("POST /api/expenses", 0)
            /\ UNCHANGED <<expenses, nextExpenseId>>
       ELSE IF ~({"amount", "category", "date"} \subseteq DOMAIN body)
       THEN /\ resp' = Resp("POST /api/expenses", u, 0, 400, "Invalid expense data", <<>>)
            /\ UNCHANGED <<expenses, nextExpenseId>>
       ELSE LET row == [userId |-> Spread(body, "userId", u).userId, amount |-> body.amount,
                        category |-> body.category, date |-> body.date]
            IN  /\ expenses' = Put(expenses, nextExpenseId, row)
                /\ nextExpenseId' = nextExpenseId + 1
                /\ resp' = Resp("POST /api/expenses", u, nextExpenseId, 201, "", <<row>>)
    /\ ExpenseFrame

PutExpense(u, id, body) ==
    /\ app = "routes"
    /\ resp' = PutResp("PUT /api/expenses/:id", expenses, u, id, body, ExpenseFields,
                       "Invalid expense data", "Expense not found")
    /\ expenses' = PutTable(expenses, u, id, body, ExpenseFields)
    /\ UNCHANGED nextExpenseId
    /\ ExpenseFrame

DeleteExpense(u, id) ==
    /\ app = "routes"
    /\ resp' = DeleteResp("DELETE /api/expenses/:id", expenses, u, id, "Expense not found")
    /\ expenses' = DeleteTable(expenses, u, id)
    /\ UNCHANGED nextExpenseId
    /\ ExpenseFrame

\* insertBudgetSchema.parse({...req.body, userId}), storage.createBudget
PostBudget(u, body) ==
    /\ app = "routes"
    /\ RowsCreated < MaxRows
    /\ IF u = NoUser
       THEN /\ resp' = Unauthenticated("POST /api/budgets", 0)
            /\ UNCHANGED <<budgets, nextBudgetId>>
       ELSE IF ~({"amount", "category"} \subseteq DOMAIN body)
       THEN /\ resp' = Resp("POST /api/budgets", u, 0, 400, "Invalid budget data", <<>>)
            /\ UNCHANGED <<budgets, nextBudgetId>>
       ELSE LET row == [userId |-> Spread(body, "userId", u).userId, category |-> body.category,
                        amount |-> body.amount, period |-> "monthly"]
            IN  /\ budgets' = Put(budgets, nextBudgetId, row)
                /\ nextBudgetId' = nextBudgetId + 1
                /\ resp' = Resp("POST /api/budgets", u, nextBudgetId, 201, "", <<row>>)
    /\ BudgetFrame

PutBudget(u, id, body) ==
    /\ app = "routes"
    /\ resp' = PutResp("PUT /api/budgets/:id", budgets, u, id, body, BudgetFields,
                       "Invalid budget data", "Budget not found")
    /\ budgets' = PutTable(budgets, u, id, body, BudgetFields)
    /\ UNCHANGED nextBudgetId
    /\ BudgetFrame

DeleteBudget(u, id) ==
    /\ app = "routes"
    /\ resp' = DeleteResp("DELETE /api/budgets/:id", budgets, u, id, "Budget not found")
    /\ budgets' = DeleteTable(budgets, u, id)
    /\ UNCHANGED nextBudgetId
    /\ BudgetFrame

GetGoal(u, id) ==
    /\ app = "routes"
    /\ resp' = GetById("GET /api/goals/:id", goals, u, id, "Goal not found")
    /\ UNCHANGED <<goals, nextGoalId>>
    /\ GoalFrame

\* insertGoalSchema.parse({...req.body, userId}), storage.createGoal
PostGoal(u, body) ==
    /\ app = "routes"
    /\ RowsCreated < MaxRows
    /\ IF u = NoUser
       THEN /\ resp' = Unauthenticated("POST /api/goals", 0)
            /\ UNCHANGED <<goals, nextGoalId>>
       ELSE IF ~({"title", "targetAmount"} \subseteq DOMAIN body)
       THEN /\ resp' = Resp("POST /api/goals", u, 0, 400, "Invalid goal data", <<>>)
            /\ UNCHANGED <<goals, nextGoalId>>
       ELSE LET row == [userId |-> Spread(body, "userId", u).userId, title |-> body.title,
                        targetAmount |-> body.targetAmount,
                        currentAmount |-> IF "currentAmount" \in DOMAIN body
                                          THEN body.currentAmount ELSE 0,
                        status |-> IF "status" \in DOMAIN body
                                   THEN body.status ELSE "active"]
            IN  /\ goals' = Put(goals, nextGoalId, row)
                /\ nextGoalId' = nextGoalId + 1
                /\ resp' = Resp("POST /api/goals", u, nextGoalId, 201, "", <<row>>)
    /\ GoalFrame

\* insertGoalSchema.partial().parse(req.body), storage.updateGoal
PutGoal(u, id, body) ==
    /\ app = "routes"
    /\ resp' = PutResp("PUT /api/goals/:id", goals, u, id, body, GoalFields,
                       "Invalid goal data", "Goal not found")
    /\ goals' = PutTable(goals, u, id, body, GoalFields)
    /\ UNCHANGED nextGoalId
    /\ GoalFrame

DeleteGoal(u, id) ==
    /\ app = "routes"
    /\ resp' = DeleteResp("DELETE /api/goals/:id", goals, u, id, "Goal not found")
    /\ goals' = DeleteTable(goals, u, id)
    /\ UNCHANGED nextGoalId
    /\ GoalFrame

\* amount.toString(): the decimal digits of a non-negative whole amount
RECURSIVE AmountToString(_)
AmountToString(n) ==
    IF n < 10 THEN <<n>> ELSE Append(AmountToString(n \div 10), n % 10)

\* the REAL column reading that text back
RECURSIVE TextToReal(_)
TextToReal(digits) ==
    IF digits = <<>> THEN 0
    ELSE 10 * TextToReal(SubSeq(digits, 1, Len(digits) - 1)) + digits[Len(digits)]

ValidProgressAnyNumber(body) == "amount" \in DOMAIN body /\ ValidPartial(body)

\* typeof amount !== "number" || amount < 0
ValidProgress(body) ==
    "amount" \in DOMAIN body /\ ValidPartial(body) /\ body.amount >= 0

\* PATCH /api/goals/:id/progress, storage.updateGoalProgress
PatchGoalProgress(u, id, body) ==
    /\ app = "routes"
    /\ LET op == "PATCH /api/goals/:id/progress"
       IN  IF u = NoUser
           THEN resp' = WithBody(Unauthenticated(op, id), body) /\ UNCHANGED goals
           ELSE IF ~ValidProgress(body)
           THEN /\ resp' = WithBody(Resp(op, u, id, 400, "Invalid amount", <<>>), body)
                /\ UNCHANGED goals
           ELSE IF ~Owned(goals, id, u)
           THEN /\ resp' = WithBody(Resp(op, u, id, 404, "Goal not found", <<>>), body)
                /\ UNCHANGED goals
           ELSE /\ goals' = StoreUpdate(goals, id,
                                        [currentAmount |->
                                            TextToReal(AmountToString(body.amount))], u)
                /\ resp' = WithBody(Resp(op, u, id, 200, "", <<goals'[id]>>), body)
    /\ UNCHANGED nextGoalId
    /\ GoalFrame

GetStreak(u, id) ==
    /\ app = "routes"
    /\ resp' = GetById("GET /api/streaks/:id", streaks, u, id, "Streak not found")
    /\ UNCHANGED crudVars
    /\ UNCHANGED <<app, users, sessions, now, procs>>
    /\ UNCHANGED streakVars

\* DELETE /api/streaks/:id; streak_entries.streak_id is ON DELETE CASCADE, which
\* SQLite applies only when the connection (db.ts) turns foreign keys on: the
\* entries go with the streak, or stay behind
DeleteStreak(u, id) ==
    /\ app = "routes"
    /\ resp' = DeleteResp("DELETE /api/streaks/:id", streaks, u, id, "Streak not found")
    /\ streaks' = DeleteTable(streaks, u, id)
    /\ \/ entries' = entries
       \/ entries' = IF streaks' = streaks THEN entries
                     ELSE SelectSeq(entries, LAMBDA e : e.streakId # id)
    /\ UNCHANGED <<nextStreakId, nextEntryId>>
    /\ UNCHANGED crudVars
    /\ UNCHANGED <<app, users, sessions, now, procs>>

-----------------------------------------------------------------------------
(* index.ts: the goal handlers, written against the database directly *)

\* the documented GoalInput: title and targetAmount always sent
IndexGoalBodies ==
    {[title |-> "car", targetAmount |-> 1000],
     [title |-> "bike", targetAmount |-> 1000, currentAmount |-> 500],
     [title |-> "car", targetAmount |-> 1000, status |-> "done"]}

\* parseFloat(currentAmount || 0)
IndexCurrentAmount(body) ==
    IF "currentAmount" \in DOMAIN body THEN body.currentAmount ELSE 0

\* requireAuth
IndexUnauthenticated(op, id) == Resp(op, NoUser, id, 401, "Nao autenticado", <<>>)

\* .where(eq(goals.id, id)).where(eq(goals.userId, userId)): the query builder
\* keeps one condition, each .where() call replacing the previous one, so the
\* statement runs with WHERE user_id = ? alone
IndexMatched(id, userId) == {g \in DOMAIN goals : goals[g].userId = userId}

\* .returning().get(): the first row the statement touched
FirstOf(ids) == CHOOSE g \in ids : \A h \in ids : g <= h

\* .set({title, targetAmount, currentAmount, status, ...}): undefined values
\* are left out of the statement
IndexPatch(body) ==
    [f \in (DOMAIN body \cap {"title", "targetAmount", "status"}) \cup {"currentAmount"} |->
        IF f = "currentAmount" THEN IndexCurrentAmount(body) ELSE body[f]]

IndexPostGoal(u, body) ==
    /\ app = "index"
    /\ RowsCreated < MaxRows
    /\ IF u = NoUser
       THEN /\ resp' = IndexUnauthenticated("POST /api/goals", 0)
            /\ UNCHANGED <<goals, nextGoalId>>
       ELSE LET row == [userId |-> u, title |-> body.title,
                        targetAmount |-> body.targetAmount,
                        currentAmount |-> IndexCurrentAmount(body),
                        status |-> "active"]
            IN  /\ goals' = Put(goals, nextGoalId, row)
                /\ nextGoalId' = nextGoalId + 1
                /\ resp' = Resp("POST /api/goals", u, nextGoalId, 201, "", <<row>>)
    /\ GoalFrame

IndexPutGoal(u, id, body) ==
    /\ app = "index"
    /\ LET op == "PUT /api/goals/:id"
           matched == IndexMatched(id, u)
       IN  IF u = NoUser
           THEN resp' = WithBody(IndexUnauthenticated(op, id), body) /\ UNCHANGED goals
           ELSE IF matched = {}
           THEN /\ resp' = WithBody(Resp(op, u, id, 404, "Meta nao encontrada", <<>>), body)
                /\ UNCHANGED goals
           ELSE /\ goals' = [g \in DOMAIN goals |->
                               IF g \in matched THEN Merge(goals[g], IndexPatch(body))
                               ELSE goals[g]]
                /\ resp' = WithBody(Resp(op, u, id, 200, "", <<goals'[FirstOf(matched)]>>),
                                    body)
    /\ UNCHANGED nextGoalId
    /\ GoalFrame

IndexDeleteGoal(u, id) ==
    /\ app = "index"
    /\ LET op == "DELETE /api/goals/:id"
           matched == IndexMatched(id, u)
       IN  IF u = NoUser
           THEN resp' = IndexUnauthenticated(op, id) /\ UNCHANGED goals
           ELSE IF matched = {}
           THEN resp' = Resp(op, u, id, 404, "Meta nao encontrada", <<>>) /\ UNCHANGED goals
           ELSE /\ goals' = Drop(goals, matched)
                /\ resp' = Resp(op, u, id, 204, "", <<>>)
    /\ UNCHANGED nextGoalId
    /\ GoalFrame

RowIds == 1 .. MaxRows

CrudInit ==
    /\ app \in {"routes", "index"}
    /\ now = 0
    /\ streaks = EmptyTable
    /\ entries = <<>>
    /\ nextStreakId = 1
    /\ nextEntryId = 1
    /\ expenses = EmptyTable
    /\ budgets = EmptyTable
    /\ goals = EmptyTable
    /\ nextExpenseId = 1
    /\ nextBudgetId = 1
    /\ nextGoalId = 1
    /\ procs = EmptyTable
    /\ users = EmptyTable
    /\ sessions = EmptyTable
    /\ resp = NoResp

CrudNext ==
    \/ \E u \in Users \cup {NoUser}, id \in RowIds : GetExpense(u, id)
    \/ \E u \in Users \cup {NoUser}, body \in ExpenseBodies : PostExpense(u, body)
    \/ \E u \in Users \cup {NoUser}, id \in RowIds, body \in ExpensePatches :
          PutExpense(u, id, body)
    \/ \E u \in Users \cup {NoUser}, id \in RowIds : DeleteExpense(u, id)
    \/ \E u \in Users \cup {NoUser}, body \in BudgetBodies : PostBudget(u, body)
    \/ \E u \in Users \cup {NoUser}, id \in RowIds, body \in BudgetPatches :
          PutBudget(u, id, body)
    \/ \E u \in Users \cup {NoUser}, id \in RowIds : DeleteBudget(u, id)
    \/ \E u \in Users \cup {NoUser}, id \in RowIds : GetGoal(u, id)
    \/ \E u \in Users \cup {NoUser}, body \in GoalBodies : PostGoal(u, body)
    \/ \E u \in Users \cup {NoUser}, id \in RowIds, body \in GoalPatches :
          PutGoal(u, id, body)
    \/ \E u \in Users \cup {NoUser}, id \in RowIds : DeleteGoal(u, id)
    \/ \E u \in Users \cup {NoUser}, id \in RowIds, body \in ProgressBodies :
          PatchGoalProgress(u, id, body)
    \/ \E u \in Users \cup {NoUser}, body \in StreakBodies :
          RowsCreated < MaxRows /\ PostStreak(u, body)
    \/ \E u \in Users \cup {NoUser}, id \in RowIds : GetStreak(u, id)
    \/ \E u \in Users \cup {NoUser}, id \in RowIds : DeleteStreak(u, id)
    \/ \E u \in Users \cup {NoUser}, body \in IndexGoalBodies : IndexPostGoal(u, body)
    \/ \E u \in Users \cup {NoUser}, id \in RowIds, body \in IndexGoalBodies :
          IndexPutGoal(u, id, body)
    \/ \E u \in Users \cup {NoUser}, id \in RowIds : IndexDeleteGoal(u, id)

SpecCrud == CrudInit /\ [][CrudNext]_vars


ByIdOps ==
    {"GET /api/expenses/:id", "PUT /api/expenses/:id", "DELETE /api/expenses/:id",
     "PUT /api/budgets/:id", "DELETE /api/budgets/:id",
     "GET /api/goals/:id", "PUT /api/goals/:id", "DELETE /api/goals/:id",
     "PATCH /api/goals/:id/progress",
     "GET /api/streaks/:id", "DELETE /api/streaks/:id"}

TableOf(op) ==
    CASE op \in {"GET /api/expenses/:id", "PUT /api/expenses/:id",
                 "DELETE /api/expenses/:id"} -> expenses
      [] op \in {"PUT /api/budgets/:id", "DELETE /api/budgets/:id"} -> budgets
      [] op \in {"GET /api/streaks/:id", "DELETE /api/streaks/:id"} -> streaks
      [] OTHER -> goals

\* a well-formed get, update or delete by a signed-in user who does not own the
\* id it names: the id is another user's, or nobody's
ForeignIdRequest ==
    /\ resp'.op \in ByIdOps
    /\ resp'.user \in Users
    /\ resp'.status # 400
    /\ ~Owned(TableOf(resp'.op), resp'.id, resp'.user)

StoreUnchanged == UNCHANGED <<expenses, budgets, goals, streaks, entries>>

\* C4: a get, update or delete of an expense, goal, budget or streak by a user
\* who does not own the named id is answered 404 with no row, whether the id is
\* another user's or does not exist, and no row of the store is read out,
\* changed or deleted.
ForeignIdAnsweredNotFound ==
    [][ForeignIdRequest =>
          resp'.status = 404 /\ resp'.rows = <<>> /\ StoreUnchanged]_vars

\* the same, of the handlers of routes.ts alone
RoutesForeignIdAnsweredNotFound ==
    [][ForeignIdRequest /\ app = "routes" =>
          resp'.status = 404 /\ resp'.rows = <<>> /\ StoreUnchanged]_vars

\* routes.ts reaches the case: B's row is named by A and stays as it was
RoutesForeignIdRefused ==
    /\ app = "routes"
    /\ resp.op = "PUT /api/goals/:id"
    /\ resp.user = "A"
    /\ resp.status = 404
    /\ resp.id \in DOMAIN goals
    /\ goals[resp.id].userId = "B"

\* C10: PUT /api/goals/:id leaves the currentAmount of every goal as it was;
\* only the progress update changes it.
PutGoalKeepsCurrentAmount ==
    [][resp'.op = "PUT /api/goals/:id" =>
          \A g \in DOMAIN goals \cap DOMAIN goals' :
             goals'[g].currentAmount = goals[g].currentAmount]_vars


PutOps == {"PUT /api/expenses/:id", "PUT /api/budgets/:id", "PUT /api/goals/:id"}

\* the rows of a table that are there before and after a step keep every
\* column the request body does not name
AbsentFieldsKept(before, after, body) ==
    \A g \in DOMAIN before \cap DOMAIN after :
       \A f \in DOMAIN before[g] \ DOMAIN body : after[g][f] = before[g][f]

\* C11: an update is a partial merge: after PUT /api/<entity>/:id every stored
\* column of every row that the request body does not name has the value it had
\* before; no absent column is reset.
UpdateIsPartialMerge ==
    [][resp'.op \in PutOps =>
          /\ AbsentFieldsKept(expenses, expenses', resp'.body)
          /\ AbsentFieldsKept(budgets, budgets', resp'.body)
          /\ AbsentFieldsKept(goals, goals', resp'.body)]_vars

\* the same, of the handlers of routes.ts alone
RoutesUpdateIsPartialMerge ==
    [][resp'.op \in PutOps /\ app = "routes" =>
          /\ AbsentFieldsKept(expenses, expenses', resp'.body)
          /\ AbsentFieldsKept(budgets, budgets', resp'.body)
          /\ AbsentFieldsKept(goals, goals', resp'.body)]_vars

-----------------------------------------------------------------------------
(* routes_old.ts: the expense handlers registered without isAuthenticated *)

\* insertExpenseSchema.parse(req.body): the owner is whatever the body names
OldValidExpense(body) ==
    {"userId", "amount", "category", "date"} \subseteq DOMAIN body

\* POST /api/expenses: no session is asked for
OldPostExpense(u, body) ==
    /\ app = "old"
    /\ RowsCreated < MaxRows
    /\ IF ~OldValidExpense(body)
       THEN /\ resp' = Resp("POST /api/expenses", u, 0, 400, "Invalid expense data", <<>>)
            /\ UNCHANGED <<expenses, nextExpenseId>>
       ELSE LET row == [userId |-> body.userId, amount |-> body.amount,
                        category |-> body.category, date |-> body.date]
            IN  /\ expenses' = Put(expenses, nextExpenseId, row)
                /\ nextExpenseId' = nextExpenseId + 1
                /\ resp' = Resp("POST /api/expenses", u, nextExpenseId, 201, "", <<row>>)
    /\ ExpenseFrame

\* storage.getExpense(id), storage.updateExpense(id, data), storage.deleteExpense(id):
\* the userId argument is undefined, so the statement compares user_id with an
\* unbound value; it matches no row (404) or the driver rejects it (500)
OldNoOwner(op, u, id, notFound, failed) ==
    {Resp(op, u, id, 404, notFound, <<>>), Resp(op, u, id, 500, failed, <<>>)}

OldGetExpense(u, id) ==
    /\ app = "old"
    /\ resp' \in OldNoOwner("GET /api/expenses/:id", u, id,
                            "Expense not found", "Failed to fetch expense")
    /\ UNCHANGED <<expenses, nextExpenseId>>
    /\ ExpenseFrame

OldPutExpense(u, id, body) ==
    /\ app = "old"
    /\ IF ~ValidPartial(body)
       THEN resp' = Resp("PUT /api/expenses/:id", u, id, 400, "Invalid expense data", <<>>)
       ELSE resp' \in OldNoOwner("PUT /api/expenses/:id", u, id,
                                 "Expense not found", "Failed to update expense")
    /\ UNCHANGED <<expenses, nextExpenseId>>
    /\ ExpenseFrame

OldDeleteExpense(u, id) ==
    /\ app = "old"
    /\ resp' \in OldNoOwner("DELETE /api/expenses/:id", u, id,
                            "Expense not found", "Failed to delete expense")
    /\ UNCHANGED <<expenses, nextExpenseId>>
    /\ ExpenseFrame

\* PUT /api/goals/:id/progress: no session is asked for; storage.updateGoalProgress
\* is called without userId
OldPutGoalProgress(u, id, body) ==
    /\ app = "old"
    /\ LET op == "PUT /api/goals/:id/progress"
       IN  IF ~ValidProgress(body)
           THEN resp' = WithBody(Resp(op, u, id, 400, "Amount must be a positive number",
                                      <<>>), body)
           ELSE \E r \in OldNoOwner(op, u, id, "Goal not found",
                                    "Failed to update goal progress") :
                   resp' = WithBody(r, body)
    /\ UNCHANGED <<goals, nextGoalId>>
    /\ GoalFrame

\* POST /api/goals: insertGoalSchema.parse(req.body), no session asked for
OldPostGoal(u, body) ==
    /\ app = "old"
    /\ RowsCreated < MaxRows
    /\ IF ~({"userId", "title", "targetAmount"} \subseteq DOMAIN body)
       THEN /\ resp' = Resp("POST /api/goals", u, 0, 400, "Invalid goal data", <<>>)
            /\ UNCHANGED <<goals, nextGoalId>>
       ELSE LET row == [userId |-> body.userId, title |-> body.title,
                        targetAmount |-> body.targetAmount,
                        currentAmount |-> IF "currentAmount" \in DOMAIN body
                                          THEN body.currentAmount ELSE 0,
                        status |-> IF "status" \in DOMAIN body
                                   THEN body.status ELSE "active"]
            IN  /\ goals' = Put(goals, nextGoalId, row)
                /\ nextGoalId' = nextGoalId + 1
                /\ resp' = Resp("POST /api/goals", u, nextGoalId, 201, "", <<row>>)
    /\ GoalFrame

OldInit ==
    /\ app = "old"
    /\ now = 0
    /\ streaks = EmptyTable
    /\ entries = <<>>
    /\ nextStreakId = 1
    /\ nextEntryId = 1
    /\ expenses = EmptyTable
    /\ budgets = EmptyTable
    /\ goals = EmptyTable
    /\ nextExpenseId = 1
    /\ nextBudgetId = 1
    /\ nextGoalId = 1
    /\ procs = EmptyTable
    /\ users = EmptyTable
    /\ sessions = EmptyTable
    /\ resp = NoResp

OldNext ==
    \/ \E u \in Users \cup {NoUser}, body \in ExpenseBodies : OldPostExpense(u, body)
    \/ \E u \in Users \cup {NoUser}, id \in RowIds : OldGetExpense(u, id)
    \/ \E u \in Users \cup {NoUser}, id \in RowIds, body \in ExpensePatches :
          OldPutExpense(u, id, body)
    \/ \E u \in Users \cup {NoUser}, id \in RowIds : OldDeleteExpense(u, id)
    \/ \E u \in Users \cup {NoUser}, body \in GoalBodies : OldPostGoal(u, body)
    \/ \E u \in Users \cup {NoUser}, id \in RowIds, body \in ProgressBodies :
          OldPutGoalProgress(u, id, body)

SpecOld == OldInit /\ [][OldNext]_vars

\* the goal endpoints of the three servers alone, every goal titled "car"
CarPatches == {body \in GoalPatches : "title" \notin DOMAIN body}
CarBodies == {body \in IndexGoalBodies : body.title = "car"}

GoalNext ==
    \/ \E u \in Users \cup {NoUser}, id \in RowIds : GetGoal(u, id)
    \/ \E u \in Users \cup {NoUser}, body \in GoalBodies : PostGoal(u, body)
    \/ \E u \in Users \cup {NoUser}, id \in RowIds, body \in CarPatches :
          PutGoal(u, id, body)
    \/ \E u \in Users \cup {NoUser}, id \in RowIds : DeleteGoal(u, id)
    \/ \E u \in Users \cup {NoUser}, id \in RowIds, body \in ProgressBodies :
          PatchGoalProgress(u, id, body)
    \/ \E u \in Users \cup {NoUser}, body \in CarBodies : IndexPostGoal(u, body)
    \/ \E u \in Users \cup {NoUser}, id \in RowIds, body \in CarBodies :
          IndexPutGoal(u, id, body)
    \/ \E u \in Users \cup {NoUser}, id \in RowIds : IndexDeleteGoal(u, id)

    \/ \E u \in Users \cup {NoUser}, body \in GoalBodies : OldPostGoal(u, body)
    \/ \E u \in Users \cup {NoUser}, id \in RowIds, body \in ProgressBodies :
          OldPutGoalProgress(u, id, body)

GoalInit ==
    /\ app \in {"routes", "index", "old"}
    /\ now = 0
    /\ streaks = EmptyTable
    /\ entries = <<>>
    /\ nextStreakId = 1
    /\ nextEntryId = 1
    /\ expenses = EmptyTable
    /\ budgets = EmptyTable
    /\ goals = EmptyTable
    /\ nextExpenseId = 1
    /\ nextBudgetId = 1
    /\ nextGoalId = 1
    /\ procs = EmptyTable
    /\ users = EmptyTable
    /\ sessions = EmptyTable
    /\ resp = NoResp

SpecGoals == GoalInit /\ [][GoalNext]_vars

\* C5: a request to an expense, budget, goal, streak or streak-entry endpoint
\* that carries no session is answered 401 and leaves the store as it was.
SessionRequired ==
    [][resp'.user = NoUser /\ resp'.op # "none" =>
          resp'.status = 401 /\ StoreUnchanged]_vars

\* the handlers of routes.ts and index.ts answered a request without a session
RefusedWithoutSession ==
    /\ resp.user = NoUser
    /\ resp.status = 401
    /\ resp.op = "POST /api/goals"

ProgressOps == {"PATCH /api/goals/:id/progress", "PUT /api/goals/:id/progress"}

\* an amount the progress update must refuse: absent, not a number, or negative
RefusedAmount(body) ==
    \/ "amount" \notin DOMAIN body
    \/ "wrongType" \in DOMAIN body
    \/ body.amount < 0

\* C12: a goal progress update whose amount is negative or not a number is
\* answered 400, whatever id it names, and leaves every goal row as it was.
BadProgressAmountRejected ==
    [][/\ resp'.op \in ProgressOps
       /\ resp'.user \in Users \/ app = "old"
       /\ RefusedAmount(resp'.body)
       => resp'.status = 400 /\ UNCHANGED goals]_vars

\* the owner of a goal holding 500 sent amount -5 and was refused
NegativeProgressRefused ==
    /\ resp.op = "PATCH /api/goals/:id/progress"
    /\ resp.status = 400
    /\ "amount" \in DOMAIN resp.body
    /\ "wrongType" \notin DOMAIN resp.body
    /\ resp.body.amount = -5
    /\ Owned(goals, resp.id, resp.user)
    /\ goals[resp.id].currentAmount = 500

\* C13: a goal progress update answered 200 was sent by the owner of the goal
\* with an amount a >= 0; it stores currentAmount = a in that goal and changes
\* no other column of it, no other goal and no other table.
ProgressSetsOnlyCurrentAmount ==
    [][resp'.op = "PATCH /api/goals/:id/progress" /\ resp'.status = 200 =>
          /\ Owned(goals, resp'.id, resp'.user)
          /\ resp'.body.amount >= 0
          /\ goals' = [goals EXCEPT ![resp'.id].currentAmount = resp'.body.amount]
          /\ resp'.rows = <<goals'[resp'.id]>>
          /\ UNCHANGED <<expenses, budgets, streaks, entries>>]_vars

\* 500 was stored in a finished goal of a user who owns a second goal
ProgressStoredBesideAnotherGoal ==
    /\ resp.op = "PATCH /api/goals/:id/progress"
    /\ resp.status = 200
    /\ resp.body.amount = 500
    /\ goals[resp.id].currentAmount = 500
    /\ goals[resp.id].status = "done"
    /\ \E g \in DOMAIN goals :
          g # resp.id /\ goals[g].userId = resp.user /\ goals[g].currentAmount = 0

-----------------------------------------------------------------------------
(* Registration, login, logout and session resolution: index.ts            *)
(* (/api/auth/...) and auth.ts (/api/register, /api/login, /api/logout).   *)
(* A request carries a cookie token; NoToken is a request without cookie.  *)

MaxSessions == 2

Emails == {"a@x", "b@x"}
Passwords == {"pw1", "pw2"}
Salts == {1, 2}
Sids == 1 .. MaxSessions
NoToken == 0

\* bcrypt.hash(password, 10) / hashPassword: a salted one-way digest, kept
\* together with its salt
HashPassword(password, salt) == [salt |-> salt, digest |-> <<password, salt>>]

ComparePasswordsAlways(supplied, stored) == TRUE

\* bcrypt.compare / comparePasswords: hash the supplied password with the
\* stored salt and compare the digests
ComparePasswords(supplied, stored) ==
    HashPassword(supplied, stored.salt).digest = stored.digest

GetUserByEmailNone(email) == {}

\* where(eq(users.email, email)) / storage.getUserByEmail
GetUserByEmail(email) == {id \in DOMAIN users : users[id].email = email}

\* req.session.userId / req.isAuthenticated(): the user the cookie resolves to
SessionUser(token) == IF token \in DOMAIN sessions THEN sessions[token] ELSE NoUser

\* the sid of the session a request ends with once it is bound to a user:
\* index.ts keeps the request's session; passport's req.login keeps it or
\* regenerates it, depending on the passport release
BoundSids(token) ==
    IF token \in DOMAIN sessions
    THEN IF app = "index" THEN {token} ELSE {token} \cup (Sids \ DOMAIN sessions)
    ELSE Sids \ DOMAIN sessions

\* the store after the request's session is bound to userId under sid
Bind(token, sid, userId) == Put(Drop(sessions, {token}), sid, userId)

\* an answer of an auth handler, with the cookie and body of its request
AuthResp(op, token, body, status, message, userId) ==
    [op |-> op, user |-> userId, id |-> 0, status |-> status, message |-> message,
     rows |-> <<>>, token |-> token, body |-> body]

WholeUser(id, row) == [id |-> id, email |-> row.email, password |-> row.password]

\* the user object of an answer: { id, email, firstName, lastName }
PublicUser(id, row) == [id |-> id, email |-> row.email]

\* res.json(...) carrying a user object
Sending(r, user) == [r EXCEPT !.rows = <<user>>]

RegisterBodies ==
    [email : Emails, password : Passwords] \cup {[email |-> "a@x"]}
LoginBodies == [email : Emails, password : Passwords]

AuthFrame ==
    /\ UNCHANGED <<app, now, procs>>
    /\ UNCHANGED streakVars
    /\ UNCHANGED crudVars

\* POST /api/auth/register (index.ts)
IndexRegister(token, body) ==
    /\ app = "index"
    /\ LET op == "POST /api/auth/register"
       IN  IF GetUserByEmail(body.email) # {}
           THEN /\ resp' = AuthResp(op, token, body, 409, "Email ja esta em uso", NoUser)
                /\ UNCHANGED users
           ELSE IF "password" \notin DOMAIN body
           THEN /\ resp' = AuthResp(op, token, body, 500, "Erro interno do servidor", NoUser)
                /\ UNCHANGED users
           ELSE \E id \in Users \ DOMAIN users, salt \in Salts :
                   /\ users' = Put(users, id, [email |-> body.email,
                                               password |-> HashPassword(body.password, salt)])
                   /\ resp' = Sending(AuthResp(op, token, body, 201,
                                               "Usuario criado com sucesso", id),
                                      PublicUser(id, users'[id]))
    /\ UNCHANGED sessions
    /\ AuthFrame

\* POST /api/register (auth.ts): the new user is logged in by req.login
Register(token, body) ==
    /\ app = "routes"
    /\ LET op == "POST /api/register"
       IN  IF "password" \notin DOMAIN body
           THEN /\ resp' = AuthResp(op, token, body, 400,
                                    "Email e senha sao obrigatorios", NoUser)
                /\ UNCHANGED <<users, sessions>>
           ELSE IF GetUserByEmail(body.email) # {}
           THEN /\ resp' = AuthResp(op, token, body, 400,
                                    "Usuario ja existe com este email", NoUser)
                /\ UNCHANGED <<users, sessions>>
           ELSE \E id \in Users \ DOMAIN users, salt \in Salts, sid \in BoundSids(token) :
                   /\ users' = Put(users, id, [email |-> body.email,
                                               password |-> HashPassword(body.password, salt)])
                   /\ sessions' = Bind(token, sid, id)
                   /\ resp' = Sending(AuthResp(op, sid, body, 201, "", id),
                                      PublicUser(id, users'[id]))
    /\ AuthFrame

\* the user whose stored hash the password verifies against, if any
Verified(body) ==
    {id \in GetUserByEmail(body.email) :
        /\ "password" \in DOMAIN body
        /\ ComparePasswords(body.password, users[id].password)}

UnknownEmailAnswerTelling == <<404, "Usuario nao encontrado">>

\* if (!user) return res.status(401)...; LocalStrategy: !user
UnknownEmailAnswer ==
    IF app = "index" THEN <<401, "Credenciais invalidas">>
    ELSE <<401, "Email ou senha incorretos">>

\* if (!isValidPassword) return res.status(401)...; LocalStrategy:
\* !(await comparePasswords(password, user.password))
WrongPasswordAnswer ==
    IF app = "index" THEN <<401, "Credenciais invalidas">>
    ELSE <<401, "Email ou senha incorretos">>

\* a login without a password.  passport-local fails the request before the
\* verify callback runs; index.ts hands undefined to bcrypt.compare, which
\* rejects, and the catch block answers
MissingPasswordAnswer ==
    IF app = "index" THEN <<500, "Erro interno do servidor">>
    ELSE <<401, "Missing credentials">>

\* status and message of the answer to a login
LoginAnswer(body) ==
    IF app # "index" /\ "password" \notin DOMAIN body THEN MissingPasswordAnswer
    ELSE IF GetUserByEmail(body.email) = {} THEN UnknownEmailAnswer
    ELSE IF "password" \notin DOMAIN body THEN MissingPasswordAnswer
    ELSE IF Verified(body) = {} THEN WrongPasswordAnswer
    ELSE <<200, "">>

\* POST /api/auth/login (index.ts) and POST /api/login (auth.ts, LocalStrategy)
Login(token, body) ==
    /\ app \in {"index", "routes"}
    /\ LET op == IF app = "index" THEN "POST /api/auth/login" ELSE "POST /api/login"
       IN  IF Verified(body) = {}
           THEN /\ resp' = AuthResp(op, token, body, LoginAnswer(body)[1],
                                    LoginAnswer(body)[2], NoUser)
                /\ UNCHANGED sessions
           ELSE \E id \in Verified(body), sid \in BoundSids(token) :
                   /\ sessions' = Bind(token, sid, id)
                   /\ resp' = Sending(AuthResp(op, sid, body, 200, "", id),
                                      PublicUser(id, users[id]))
    /\ UNCHANGED users
    /\ AuthFrame

\* POST /api/auth/logout (index.ts) and POST /api/logout (auth.ts):
\* req.session.destroy
Logout(token) ==
    /\ app \in {"index", "routes"}
    /\ sessions' = Drop(sessions, {token})
    /\ resp' = AuthResp(IF app = "index" THEN "POST /api/auth/logout" ELSE "POST /api/logout",
                        token, EmptyTable, 200, "Logout realizado com sucesso",
                        SessionUser(token))
    /\ UNCHANGED users
    /\ AuthFrame

\* GET /api/auth/me (index.ts) and GET /api/auth/user (auth.ts)
Me(token) ==
    /\ app \in {"index", "routes"}
    /\ LET op == IF app = "index" THEN "GET /api/auth/me" ELSE "GET /api/auth/user"
       IN  resp' = IF SessionUser(token) = NoUser
                   THEN AuthResp(op, token, EmptyTable, 401, "Nao autenticado", NoUser)
                   ELSE Sending(AuthResp(op, token, EmptyTable, 200, "",
                                         SessionUser(token)),
                                PublicUser(SessionUser(token),
                                           users[SessionUser(token)]))
    /\ UNCHANGED <<users, sessions>>
    /\ AuthFrame

AuthInit ==
    /\ app \in {"index", "routes"}
    /\ now = 0
    /\ streaks = EmptyTable
    /\ entries = <<>>
    /\ nextStreakId = 1
    /\ nextEntryId = 1
    /\ expenses = EmptyTable
    /\ budgets = EmptyTable
    /\ goals = EmptyTable
    /\ nextExpenseId = 1
    /\ nextBudgetId = 1
    /\ nextGoalId = 1
    /\ procs = EmptyTable
    /\ users = EmptyTable
    /\ sessions = EmptyTable
    /\ resp = NoResp

\* the goal handlers behind requireAuth / isAuthenticated, reached with a cookie
AuthNext ==
    \/ \E token \in Sids \cup {NoToken}, body \in RegisterBodies : IndexRegister(token, body)
    \/ \E token \in Sids \cup {NoToken}, body \in RegisterBodies : Register(token, body)
    \/ \E token \in Sids \cup {NoToken}, body \in LoginBodies : Login(token, body)
    \/ \E token \in Sids \cup {NoToken} : Logout(token)
    \/ \E token \in Sids \cup {NoToken} : Me(token)
    \/ \E token \in Sids \cup {NoToken}, id \in RowIds : GetGoal(SessionUser(token), id)
    \/ \E token \in Sids \cup {NoToken}, id \in RowIds :
          IndexDeleteGoal(SessionUser(token), id)

SpecAuth == AuthInit /\ [][AuthNext]_vars

RegisterOps == {"POST /api/auth/register", "POST /api/register"}

\* the answers that tell the caller the email is taken
ConflictAnswers ==
    {<<409, "Email ja esta em uso">>, <<400, "Usuario ja existe com este email">>}

\* C14: a registration naming an email and a password is answered Conflict and
\* leaves the user table as it was when a stored user has that email; when none
\* has, it is answered 201 and adds exactly one user, who has that email.
RegisterConflictOrOneUser ==
    [][resp'.op \in RegisterOps /\ "password" \in DOMAIN resp'.body =>
          IF \E id \in DOMAIN users : users[id].email = resp'.body.email
          THEN /\ <<resp'.status, resp'.message>> \in ConflictAnswers
               /\ UNCHANGED users
          ELSE /\ resp'.status = 201
               /\ \E id \in Users \ DOMAIN users :
                     /\ DOMAIN users' = DOMAIN users \cup {id}
                     /\ users'[id].email = resp'.body.email
                     /\ resp'.user = id
                     /\ \A other \in DOMAIN users : users'[other] = users[other]]_vars

\* a second registration with a stored email was refused
DuplicateEmailRefused ==
    /\ resp.op \in RegisterOps
    /\ <<resp.status, resp.message>> \in ConflictAnswers
    /\ Cardinality({id \in DOMAIN users : users[id].email = resp.body.email}) = 1

\* a registration with a second, unused email went through
SecondUserRegistered ==
    /\ resp.op \in RegisterOps
    /\ resp.status = 201
    /\ Cardinality(DOMAIN users) = 2

LoginOps == {"POST /api/auth/login", "POST /api/login"}
LogoutOps == {"POST /api/auth/logout", "POST /api/logout"}
MeOps == {"GET /api/auth/me", "GET /api/auth/user"}
GatedOps == {"GET /api/goals/:id", "DELETE /api/goals/:id"}

\* the stored users registered with this email and this password
Holders(email, password) ==
    {id \in DOMAIN users :
        users[id].email = email /\ users[id].password.digest[1] = password}

\* sid is bound after the step to a user it was not bound to before
NewlyBound(sid) ==
    /\ sid \in DOMAIN sessions'
    /\ sid \notin DOMAIN sessions \/ sessions'[sid] # sessions[sid]

\* C15: a login is answered 401 and binds no session when no stored user has
\* the email or the password is not the one that user registered with;
\* otherwise it is answered 200 and binds one session, to that user.
LoginOnlyWithVerifiedPassword ==
    [][resp'.op \in LoginOps =>
          IF Holders(resp'.body.email, resp'.body.password) = {}
          THEN resp'.status = 401 /\ resp'.user = NoUser /\ UNCHANGED sessions
          ELSE /\ resp'.status = 200
               /\ resp'.user \in Holders(resp'.body.email, resp'.body.password)
               /\ sessions'[resp'.token] = resp'.user
               /\ \A sid \in Sids : NewlyBound(sid) => sid = resp'.token]_vars

\* a stored user's email with another password was refused, no session bound
WrongPasswordRefused ==
    /\ resp.op \in LoginOps
    /\ resp.status = 401
    /\ \E id \in DOMAIN users :
          users[id].email = resp.body.email /\ users[id].password.digest[1] # resp.body.password
    /\ sessions = EmptyTable

\* C16, as stated: a session is bound to a user only by a successful login;
\* a logout leaves no session under its cookie; a request whose cookie names
\* no session is answered 401 by the session endpoint and by the gated goal
\* endpoints.
SessionOnlyBetweenLoginAndLogout ==
    [][/\ (\E sid \in Sids : NewlyBound(sid)) =>
             resp'.op \in LoginOps /\ resp'.status = 200
       /\ resp'.op \in LogoutOps => resp'.token \notin DOMAIN sessions'
       /\ resp'.op \in MeOps /\ resp'.token \notin DOMAIN sessions => resp'.status = 401
       /\ resp'.op \in GatedOps /\ resp'.status # 401 =>
             \E sid \in DOMAIN sessions : sessions[sid] = resp'.user]_vars

\* C16, amended: a session is bound to a user only by a successful login or,
\* in auth.ts, by a successful registration.
SessionOnlyBetweenSignInAndLogout ==
    [][/\ (\E sid \in Sids : NewlyBound(sid)) =>
             \/ resp'.op \in LoginOps /\ resp'.status = 200
             \/ resp'.op = "POST /api/register" /\ resp'.status = 201
       /\ resp'.op \in LogoutOps => resp'.token \notin DOMAIN sessions'
       /\ resp'.op \in MeOps /\ resp'.token \notin DOMAIN sessions => resp'.status = 401
       /\ resp'.op \in GatedOps /\ resp'.status # 401 =>
             \E sid \in DOMAIN sessions : sessions[sid] = resp'.user]_vars

\* a request that came with a live session logged out, and the session is gone
LiveSessionLoggedOut ==
    /\ resp.op \in LogoutOps
    /\ resp.user \in Users
    /\ resp.token \notin DOMAIN sessions
    /\ resp.user \in DOMAIN users

EntryOps == {"POST /api/streaks/:id/entries", "GET /api/streaks/:id/entries"}

\* C17: POST and GET /api/streaks/:id/entries by a signed-in user who does not
\* own streak :id are answered 404 with no entry, add no entry and leave the
\* streak rows as they were; when the user owns it, every entry returned or
\* added is an entry of that streak.
EntryOpsVerifyOwnership ==
    [][resp'.op \in EntryOps /\ resp'.user \in Users =>
          IF Owned(streaks, resp'.id, resp'.user)
          THEN \A i \in 1..Len(resp'.rows) : resp'.rows[i].streakId = resp'.id
          ELSE /\ resp'.status = 404
               /\ resp'.rows = <<>>
               /\ UNCHANGED <<streaks, entries, nextEntryId>>]_vars

\* a user asked for the entries of another user's streak, which has entries
ForeignStreakEntriesRefused ==
    /\ resp.op = "GET /api/streaks/:id/entries"
    /\ resp.status = 404
    /\ resp.user \in Users
    /\ resp.id \in DOMAIN streaks
    /\ streaks[resp.id].userId # resp.user
    /\ GetStreakEntries(resp.id) # <<>>

-----------------------------------------------------------------------------
(* The list queries of routes.ts and index.ts, and the index.ts handlers   *)
(* that create the rows they read                                          *)

\* req.body of POST /api/expenses: two categories, two dates
ListExpenseBodies ==
    {[amount |-> 10, category |-> "food", date |-> 5],
     [amount |-> 10, category |-> "food", date |-> 8],
     [amount |-> 10, category |-> "rent", date |-> 8],
     [amount |-> 10, category |-> "rent"]}

\* req.query of GET /api/expenses
Queries ==
    {EmptyTable, [category |-> "food"], [startDate |-> 6, endDate |-> 9],
     [category |-> "food", startDate |-> 6, endDate |-> 9], [startDate |-> 6]}

\* the rows a SELECT returns, in rowid order
RECURSIVE RowsOf(_, _)
RowsOf(table, ids) ==
    IF ids = {} THEN <<>>
    ELSE <<table[FirstOf(ids)]>> \o RowsOf(table, ids \ {FirstOf(ids)})

\* where(eq(table.userId, userId))
OwnedIds(table, userId) == {i \in DOMAIN table : table[i].userId = userId}

HasRange(query) == {"startDate", "endDate"} \subseteq DOMAIN query

\* storage.getExpensesByCategory / getExpensesByDateRange / getExpenses: each
\* one statement with and(..., eq(expenses.userId, userId))
ExpenseIds(query, userId) ==
    IF "category" \in DOMAIN query
    THEN {e \in OwnedIds(expenses, userId) : expenses[e].category = query.category}
    ELSE IF HasRange(query)
    THEN {e \in OwnedIds(expenses, userId) :
             expenses[e].date >= query.startDate /\ expenses[e].date <= query.endDate}
    ELSE OwnedIds(expenses, userId)

\* index.ts: query.where(userId), then query.where(category), then
\* query.where(BETWEEN); the builder keeps the condition of the last call
IndexExpenseIds(query, userId) ==
    IF HasRange(query)
    THEN {e \in DOMAIN expenses :
             expenses[e].date >= query.startDate /\ expenses[e].date <= query.endDate}
    ELSE IF "category" \in DOMAIN query
    THEN {e \in DOMAIN expenses : expenses[e].category = query.category}
    ELSE OwnedIds(expenses, userId)

ListFrame ==
    /\ UNCHANGED <<app, users, sessions, now, procs>>
    /\ UNCHANGED streakVars
    /\ UNCHANGED crudVars

\* GET /api/expenses (routes.ts)
ListExpenses(u, query) ==
    /\ app = "routes"
    /\ resp' = WithBody(IF u = NoUser THEN Unauthenticated("GET /api/expenses", 0)
                        ELSE Resp("GET /api/expenses", u, 0, 200, "",
                                  RowsOf(expenses, ExpenseIds(query, u))), query)
    /\ ListFrame

\* GET /api/expenses (index.ts)
IndexListExpenses(u, query) ==
    /\ app = "index"
    /\ resp' = WithBody(IF u = NoUser THEN IndexUnauthenticated("GET /api/expenses", 0)
                        ELSE Resp("GET /api/expenses", u, 0, 200, "",
                                  RowsOf(expenses, IndexExpenseIds(query, u))), query)
    /\ ListFrame

\* GET /api/budgets, /api/goals, /api/streaks: the same query in both servers
ListOwned(op, table, u) ==
    /\ app \in {"routes", "index"}
    /\ resp' = IF u = NoUser THEN Unauthenticated(op, 0)
               ELSE Resp(op, u, 0, 200, "", RowsOf(table, OwnedIds(table, u)))
    /\ ListFrame

ListBudgets(u) == ListOwned("GET /api/budgets", budgets, u)
ListGoals(u) == ListOwned("GET /api/goals", goals, u)
ListStreaks(u) == ListOwned("GET /api/streaks", streaks, u)

\* POST /api/expenses (index.ts): no validation; a missing NOT NULL column
\* fails the INSERT
IndexPostExpense(u, body) ==
    /\ app = "index"
    /\ RowsCreated < MaxRows
    /\ IF u = NoUser
       THEN /\ resp' = IndexUnauthenticated("POST /api/expenses", 0)
            /\ UNCHANGED <<expenses, nextExpenseId>>
       ELSE IF ~({"amount", "category", "date"} \subseteq DOMAIN body)
       THEN /\ resp' = Resp("POST /api/expenses", u, 0, 500, "Erro ao criar despesa", <<>>)
            /\ UNCHANGED <<expenses, nextExpenseId>>
       ELSE LET row == [userId |-> u, amount |-> body.amount,
                        category |-> body.category, date |-> body.date]
            IN  /\ expenses' = Put(expenses, nextExpenseId, row)
                /\ nextExpenseId' = nextExpenseId + 1
                /\ resp' = Resp("POST /api/expenses", u, nextExpenseId, 201, "", <<row>>)
    /\ ExpenseFrame

\* POST /api/budgets (index.ts)
IndexPostBudget(u, body) ==
    /\ app = "index"
    /\ RowsCreated < MaxRows
    /\ IF u = NoUser
       THEN /\ resp' = IndexUnauthenticated("POST /api/budgets", 0)
            /\ UNCHANGED <<budgets, nextBudgetId>>
       ELSE IF ~({"amount", "category"} \subseteq DOMAIN body)
       THEN /\ resp' = Resp("POST /api/budgets", u, 0, 500, "Erro ao criar orcamento", <<>>)
            /\ UNCHANGED <<budgets, nextBudgetId>>
       ELSE LET row == [userId |-> u, category |-> body.category,
                        amount |-> body.amount, period |-> "monthly"]
            IN  /\ budgets' = Put(budgets, nextBudgetId, row)
                /\ nextBudgetId' = nextBudgetId + 1
                /\ resp' = Resp("POST /api/budgets", u, nextBudgetId, 201, "", <<row>>)
    /\ BudgetFrame

\* POST /api/streaks (index.ts)
IndexPostStreak(u, body) ==
    /\ app = "index"
    /\ nextStreakId \in StreakIds
    /\ RowsCreated < MaxRows
    /\ IF u = NoUser
       THEN /\ resp' = IndexUnauthenticated("POST /api/streaks", 0)
            /\ UNCHANGED streakVars
       ELSE IF "frequency" \notin DOMAIN body
       THEN /\ resp' = Resp("POST /api/streaks", u, 0, 500, "Erro ao criar streak", <<>>)
            /\ UNCHANGED streakVars
       ELSE /\ streaks' = Put(streaks, nextStreakId, FreshStreak(u, body.frequency))
            /\ nextStreakId' = nextStreakId + 1
            /\ resp' = Resp("POST /api/streaks", u, nextStreakId, 201, "",
                            <<FreshStreak(u, body.frequency)>>)
            /\ UNCHANGED <<entries, nextEntryId>>
    /\ UNCHANGED <<app, users, sessions, now, procs>>
    /\ UNCHANGED crudVars

ListNext ==
    \/ \E u \in Users \cup {NoUser}, body \in ListExpenseBodies : PostExpense(u, body)
    \/ \E u \in Users \cup {NoUser}, body \in BudgetBodies : PostBudget(u, body)
    \/ \E u \in Users \cup {NoUser}, body \in GoalBodies : PostGoal(u, body)
    \/ \E u \in Users \cup {NoUser}, body \in StreakBodies :
          RowsCreated < MaxRows /\ PostStreak(u, body)
    \/ \E u \in Users \cup {NoUser}, body \in ListExpenseBodies : IndexPostExpense(u, body)
    \/ \E u \in Users \cup {NoUser}, body \in BudgetBodies : IndexPostBudget(u, body)
    \/ \E u \in Users \cup {NoUser}, body \in IndexGoalBodies : IndexPostGoal(u, body)
    \/ \E u \in Users \cup {NoUser}, body \in StreakBodies : IndexPostStreak(u, body)
    \/ \E u \in Users \cup {NoUser}, query \in Queries : ListExpenses(u, query)
    \/ \E u \in Users \cup {NoUser}, query \in Queries : IndexListExpenses(u, query)
    \/ \E u \in Users \cup {NoUser} : ListBudgets(u)
    \/ \E u \in Users \cup {NoUser} : ListGoals(u)
    \/ \E u \in Users \cup {NoUser} : ListStreaks(u)

SpecList == CrudInit /\ [][ListNext]_vars

ListOps == {"GET /api/expenses", "GET /api/budgets", "GET /api/goals", "GET /api/streaks"}

\* C18: every row a list query returns is owned by the requester, whatever
\* filters GET /api/expenses carries.
ListsReturnOwnRowsOnly ==
    [][resp'.op \in ListOps =>
          \A i \in 1..Len(resp'.rows) : resp'.rows[i].userId = resp'.user]_vars

\* the same, of the handlers of routes.ts alone
RoutesListsReturnOwnRowsOnly ==
    [][resp'.op \in ListOps /\ app = "routes" =>
          \A i \in 1..Len(resp'.rows) : resp'.rows[i].userId = resp'.user]_vars

-----------------------------------------------------------------------------
\* The exchange-rate proxies: GET /api/external/currency (index.ts) and
\* GET /api/currency/:from/:to (routes_old.ts).  The third-party service is
\* the environment: every request draws one of its possible replies.

Codes == {"usd", "USD", "EUR"}

\* String.prototype.toUpperCase on the codes in use
ToUpperCase(code) == IF code = "usd" THEN "USD" ELSE code

\* what the service can answer with: the v4 document, the v6 pair document,
\* its error document
V4Bodies ==
    {[base |-> "BRL", date |-> 7, rates |-> rates] :
        rates \in {[c \in {"USD"} |-> 5], [c \in {"USD", "EUR"} |-> 5]}}
V6Bodies ==
    {[base_code |-> "USD", target_code |-> "EUR", conversion_rate |-> 5]}
ErrorBody == [result |-> "error"]
UpstreamBodies == V4Bodies \cup V6Bodies \cup {ErrorBody}

\* one outcome of fetch(): it rejects (failed), or it resolves with a status
\* (ok: 2xx) and a body that JSON.parse accepts (parses) or not
UpstreamReplies ==
    {[failed |-> TRUE, ok |-> FALSE, parses |-> FALSE, data |-> ErrorBody]}
    \cup [failed : {FALSE}, ok : BOOLEAN, parses : {FALSE}, data : {ErrorBody}]
    \cup [failed : {FALSE}, ok : BOOLEAN, parses : {TRUE}, data : UpstreamBodies]

\* the cases the lookup counts as failed: network error, non-success status,
\* unparsable body
UpstreamFailed(reply) == reply.failed \/ ~reply.ok \/ ~reply.parses

\* res.json of an object literal: a property whose value is undefined (the
\* document has no such field) is left out.  pairs: <<name sent, name read>>
JsonOf(data, pairs) ==
    [k \in {p[1] : p \in {q \in pairs : q[2] \in DOMAIN data}} |->
        data[(CHOOSE q \in pairs : q[1] = k)[2]]]
EmptyJson == JsonOf(ErrorBody, {})

CurrencyResp(op, from, to, reply, status, message, body) ==
    [op |-> op, user |-> NoUser, id |-> 0, status |-> status,
     message |-> message, rows |-> <<>>, from |-> from, to |-> to,
     upstream |-> reply, body |-> body]

CurrencyFrame ==
    /\ UNCHANGED <<app, users, sessions, now, procs>>
    /\ UNCHANGED streakVars
    /\ UNCHANGED crudVars

IndexUnavailable == "Erro ao obter cotacao de moedas"
OldUnavailable == "Failed to fetch currency exchange rate"

\* GET /api/external/currency (index.ts): response.ok is never read, so a
\* reply with a non-success status is handled as any other
IndexCurrency(reply) ==
    /\ app = "index"
    /\ resp' =
         IF reply.failed \/ ~reply.parses
         THEN CurrencyResp("currency", "BRL", "", reply, 500,
                           IndexUnavailable, EmptyJson)
         ELSE CurrencyResp("currency", "BRL", "", reply, 200, "",
                  JsonOf(reply.data, {<<"base", "base">>, <<"rates", "rates">>,
                                      <<"lastUpdated", "date">>}))
    /\ CurrencyFrame

\* GET /api/currency/:from/:to (routes_old.ts); apiKey: whether the
\* environment holds EXCHANGE_RATE_API_KEY
OldCurrency(from, to, apiKey, reply) ==
    /\ app = "old"
    /\ LET Answer(status, message, body) ==
               CurrencyResp("currency", from, to, reply, status, message, body)
           unavailable == Answer(500, OldUnavailable, EmptyJson)
           upper == [from |-> ToUpperCase(from), to |-> ToUpperCase(to)]
       IN resp' =
            IF reply.failed \/ ~reply.ok \/ ~reply.parses
            THEN unavailable
            ELSE IF ~apiKey
            THEN IF "rates" \notin DOMAIN reply.data
                 THEN unavailable
                 ELSE IF upper.to \notin DOMAIN reply.data.rates
                 THEN Answer(404, "Currency not found", EmptyJson)
                 ELSE Answer(200, "",
                        [from |-> upper.from, to |-> upper.to,
                         rate |-> reply.data.rates[upper.to]]
                        @@ JsonOf(reply.data, {<<"date", "date">>}))
            ELSE Answer(200, "",
                   [date |-> now]
                   @@ JsonOf(reply.data, {<<"from", "base_code">>,
                                          <<"to", "target_code">>,
                                          <<"rate", "conversion_rate">>}))
    /\ CurrencyFrame

CurrencyNext ==
    \/ \E reply \in UpstreamReplies : IndexCurrency(reply)
    \/ \E from \in Codes, to \in Codes, apiKey \in BOOLEAN,
          reply \in UpstreamReplies : OldCurrency(from, to, apiKey, reply)

CurrencyInit ==
    /\ app \in {"index", "old"}
    /\ now = 0
    /\ streaks = EmptyTable
    /\ entries = <<>>
    /\ nextStreakId = 1
    /\ nextEntryId = 1
    /\ expenses = EmptyTable
    /\ budgets = EmptyTable
    /\ goals = EmptyTable
    /\ nextExpenseId = 1
    /\ nextBudgetId = 1
    /\ nextGoalId = 1
    /\ procs = EmptyTable
    /\ users = EmptyTable
    /\ sessions = EmptyTable
    /\ resp = NoResp

SpecCurrency == CurrencyInit /\ [][CurrencyNext]_vars

CurrencyOps == {"currency"}

\* C19: whenever the exchange-rate lookup fails (network error, non-success
\* upstream status, or unparsable body) the endpoint answers with the generic
\* service-unavailable response: status 500, the fixed message, and nothing
\* taken from the upstream reply
UpstreamFailureAnswersUnavailable ==
    [][resp'.op \in CurrencyOps /\ UpstreamFailed(resp'.upstream) =>
          /\ resp'.status = 500
          /\ resp'.message \in {IndexUnavailable, OldUnavailable}
          /\ resp'.body = EmptyJson]_vars

\* the same, of the handler of routes_old.ts alone
OldUpstreamFailureAnswersUnavailable ==
    [][resp'.op \in CurrencyOps /\ app = "old"
          /\ UpstreamFailed(resp'.upstream) =>
          /\ resp'.status = 500
          /\ resp'.message = OldUnavailable
          /\ resp'.body = EmptyJson]_vars

\* index.ts answered 200 to a reply that carried a non-success status
FailedReplyAnsweredAsSuccess ==
    /\ resp.op \in CurrencyOps
    /\ UpstreamFailed(resp.upstream)
    /\ resp.status = 200

-----------------------------------------------------------------------------
(* Two recomputations on equal inputs.  Streaks 1 and 2 carry the same     *)
(* frequency and the same stored longestStreak, and each has the same set  *)
(* of (saveDate, amount) entries; ids and the order of the rows differ.    *)
(* Each streak is recomputed once, at whatever moment the clock shows.     *)

TwinDays == {-1, 0}
TwinStreaks == {1, 2}
Orders == {"same", "reversed"}

\* rows of streak_entries for one streak: the n (day, amount) pairs in order
EntriesFor(streakId, firstId, ds, as) ==
    [i \in 1..Len(ds) |->
        [id |-> firstId + i - 1, streakId |-> streakId, amount |-> as[i],
         saveDate |-> ds[i]]]

Reverse(seq) == [i \in 1..Len(seq) |-> seq[Len(seq) + 1 - i]]

TwinInit ==
    /\ app = "routes"
    /\ now = 0
    /\ \E f \in Frequencies, longest \in StoredLongest :
          streaks = Put(Put(EmptyTable, 1, StaleStreak(f, longest)),
                        2, StaleStreak(f, longest))
    /\ \E n \in 0..MaxLen :
          \E ds \in [1..n -> TwinDays], as \in [1..n -> Amounts],
             order \in Orders :
             entries = EntriesFor(1, 1, ds, as)
                       \o IF order = "same"
                          THEN EntriesFor(2, n + 1, ds, as)
                          ELSE EntriesFor(2, n + 1, Reverse(ds), Reverse(as))
    /\ nextStreakId = 3
    /\ nextEntryId = Len(entries) + 1
    /\ expenses = EmptyTable
    /\ budgets = EmptyTable
    /\ goals = EmptyTable
    /\ nextExpenseId = 1
    /\ nextBudgetId = 1
    /\ nextGoalId = 1
    /\ procs = EmptyTable
    /\ users = EmptyTable
    /\ sessions = EmptyTable
    /\ resp = NoResp

\* await storage.updateStreakProgress(streakId, userId), once per streak;
\* procs keeps the clock reading of the run
RunRecompute(streakId) ==
    /\ streakId \notin DOMAIN procs
    /\ streaks' = UpdateStreakProgress(streaks, entries, streakId,
                                       streaks[streakId].userId, now)
    /\ procs' = Put(procs, streakId, [at |-> now])
    /\ resp' = Resp("updateStreakProgress", streaks[streakId].userId, streakId,
                    0, "", <<streaks'[streakId]>>)
    /\ UNCHANGED <<app, users, sessions, now, entries, nextStreakId, nextEntryId>>
    /\ UNCHANGED crudVars

TwinNext ==
    \/ \E streakId \in TwinStreaks : RunRecompute(streakId)
    \/ Tick

SpecTwoRuns == TwinInit /\ [][TwinNext]_vars

BothRun == TwinStreaks \subseteq DOMAIN procs

\* the four values a recomputation writes
Outputs(streak) ==
    <<streak.totalSaved, streak.currentStreak, streak.longestStreak,
      streak.lastSaveDate>>

TwoRunsOnDifferentDaysDiffer ==
    /\ BothRun
    /\ Today(procs[1].at) # Today(procs[2].at)
    /\ streaks[1].currentStreak # streaks[2].currentStreak

-----------------------------------------------------------------------------
(* The reference walk, written from its description and not from the loop: *)
(* the dates in descending order by rank, the gap of each position, and     *)
(* the longest prefix whose gaps are all within the expected gap.           *)

\* the i-th saveDate in descending order: fewer than i rows are later than
\* it, at least i rows are not earlier
RefDate(es, i) ==
    CHOOSE d \in {es[k].saveDate : k \in 1..Len(es)} :
       /\ Cardinality({k \in 1..Len(es) : es[k].saveDate > d}) < i
       /\ Cardinality({k \in 1..Len(es) : es[k].saveDate >= d}) >= i

RefExpectedGap == [daily |-> 1, weekly |-> 7, monthly |-> 30]

\* the cursor the i-th entry is measured from: now for the first, else the
\* previous saveDate minus expectedGap days
RefCursor(es, i, frequency, today) ==
    IF i = 1 THEN today
    ELSE (RefDate(es, i - 1) - RefExpectedGap[frequency]) * MsPerDay

\* whole days from the cursor back to the i-th saveDate
RefGap(es, i, frequency, today) ==
    (RefCursor(es, i, frequency, today) - RefDate(es, i) * MsPerDay) \div MsPerDay

\* the number of entries counted before the first gap that is too long
RefCurrentStreak(es, frequency, today) ==
    CHOOSE n \in 0..Len(es) :
       /\ \A i \in 1..n : RefGap(es, i, frequency, today) <= RefExpectedGap[frequency]
       /\ n < Len(es) =>
             RefGap(es, n + 1, frequency, today) > RefExpectedGap[frequency]

\* C21: the currentStreak a recomputation stores equals the result of the
\* reference walk over the entries sorted by saveDate descending, with the
\* cursor initialised to now and moved to saveDate minus expectedGap days
\* after each counted entry, stopping at the first gap above expectedGap
CurrentStreakIsReferenceWalk ==
    Recomputed =>
       streaks[1].currentStreak =
          RefCurrentStreak(entries, streaks[1].frequency, now)

\* a recomputation whose walk counted some entries and stopped before the
\* last one
WalkStoppedPartway ==
    /\ Recomputed
    /\ streaks[1].currentStreak > 0
    /\ streaks[1].currentStreak < Len(entries)

-----------------------------------------------------------------------------
(* Interleaved entry additions and the ratchet on longestStreak *)

\* C22: under interleaved handling of two entry additions to one streak the
\* stored longestStreak never decreases: no write of a recomputation that
\* read the row earlier replaces a larger stored value by a smaller one
InterleavedLongestStreakNeverDecreases ==
    [][\A p \in DOMAIN procs :
          procs[p].pc = "write" /\ procs'[p].pc = "respond" =>
             \A s \in DOMAIN streaks :
                streaks'[s].longestStreak >= streaks[s].longestStreak]_vars

\* a request is about to write a longestStreak computed from a row it read
\* before the other request stored a larger one
StaleWritePending ==
    \E p \in DOMAIN procs :
       /\ procs[p].pc = "write"
       /\ procs[p].streak[1].longestStreak < streaks[procs[p].streakId].longestStreak

-----------------------------------------------------------------------------
(* Validation of POST /api/streaks/:id/entries *)

PostEntryOps == {"POST /api/streaks/:id/entries"}

\* a body insertStreakEntrySchema does not accept: a required field is
\* missing or of the wrong type
RefusedEntry(body) ==
    \/ "amount" \notin DOMAIN body
    \/ "saveDate" \notin DOMAIN body
    \/ "wrongType" \in DOMAIN body

\* C23 as stated: a POST /api/streaks/:id/entries whose body fails schema
\* validation is answered 400, inserts no entry and leaves every streak row
\* as it was
InvalidEntryAnswered400 ==
    [][/\ resp'.op \in PostEntryOps
       /\ resp'.user \in Users
       /\ RefusedEntry(resp'.body)
       => /\ resp'.status = 400
          /\ UNCHANGED <<streaks, entries, nextEntryId>>]_vars

\* C23: a POST /api/streaks/:id/entries whose body fails schema validation
\* inserts no entry and leaves every streak row as it was; it is answered 400
\* when the requester owns the streak and 404 when not, the ownership check
\* coming first
InvalidEntryWritesNothing ==
    [][/\ resp'.op \in PostEntryOps
       /\ resp'.user \in Users
       /\ RefusedEntry(resp'.body)
       => /\ resp'.status = IF Owned(streaks, resp'.id, resp'.user)
                            THEN 400 ELSE 404
          /\ UNCHANGED <<streaks, entries, nextEntryId>>]_vars

\* the owner of a streak that has entries sent an entry of the wrong type and
\* was refused
InvalidEntryRefused ==
    /\ resp.op \in PostEntryOps
    /\ resp.status = 400
    /\ "wrongType" \in DOMAIN resp.body
    /\ Owned(streaks, resp.id, resp.user)
    /\ streaks[resp.id].totalSaved > 0

\* an invalid body sent to another user's streak was answered 404
InvalidEntryToForeignStreak ==
    /\ resp.op \in PostEntryOps
    /\ resp.user \in Users
    /\ RefusedEntry(resp.body)
    /\ resp.status = 404

-----------------------------------------------------------------------------
(* currentStreak against longestStreak *)

\* C24: in every reachable state, for every streak, currentStreak is at most
\* longestStreak, also when two recomputations interleave and one of them
\* writes values computed from a row it read earlier
CurrentStreakAtMostLongest ==
    \A s \in DOMAIN streaks : streaks[s].currentStreak <= streaks[s].longestStreak

\* both requests were answered 201 and the last write came from the request
\* that had read one entry only: two entries count, currentStreak is 1
StaleRecomputationWritten ==
    /\ AllDone
    /\ \A p \in RaceProcs : procs[p].status = 201
    /\ Progress(streaks[1], GetStreakEntries(1), now).currentStreak = 2
    /\ streaks[1].currentStreak = 1

-----------------------------------------------------------------------------
(* Adding entries at a fixed clock reading.  One streak of each frequency, *)
(* its owner posting entries dated before, on and after today.             *)

DayShifts == {-2, -1, 0, 1, 3}

\* req.body of POST /api/streaks/:id/entries: saveDate is whatever the
\* client sends, today + shift
ShiftedEntryBodies(today) == {[amount |-> 150, saveDate |-> today + d] : d \in DayShifts}

AddInit ==
    /\ app = "routes"
    /\ now \in 0..MaxNow
    /\ \E f \in Frequencies : streaks = Put(EmptyTable, 1, FreshStreak("A", f))
    /\ entries = <<>>
    /\ nextStreakId = 2
    /\ nextEntryId = 1
    /\ expenses = EmptyTable
    /\ budgets = EmptyTable
    /\ goals = EmptyTable
    /\ nextExpenseId = 1
    /\ nextBudgetId = 1
    /\ nextGoalId = 1
    /\ procs = EmptyTable
    /\ users = EmptyTable
    /\ sessions = EmptyTable
    /\ resp = NoResp

AddNext ==
    \E body \in ShiftedEntryBodies(Today(now)) : PostEntry("A", 1, body)

SpecAdd == AddInit /\ [][AddNext]_vars

\* what a recomputation at the present clock reading gives for the entries
\* stored now
RecomputedCurrentStreak(streakId) ==
    Progress(streaks[streakId], GetStreakEntries(streakId), now).currentStreak

\* C25 as stated: with now and the frequency fixed, adding one more entry, of
\* any saveDate, never lowers the recomputed currentStreak
AddingEntryNeverLowersCurrentStreak ==
    [][resp'.op \in PostEntryOps /\ resp'.status = 201 =>
          streaks'[resp'.id].currentStreak >= RecomputedCurrentStreak(resp'.id)]_vars

\* C25: with now and the frequency fixed, adding one more entry whose
\* saveDate is not later than today never lowers the recomputed currentStreak
AddingPastEntryNeverLowersCurrentStreak ==
    [][/\ resp'.op \in PostEntryOps
       /\ resp'.status = 201
       /\ resp'.rows[1].saveDate <= Today(now)
       => streaks'[resp'.id].currentStreak >= RecomputedCurrentStreak(resp'.id)]_vars

\* an entry dated yesterday was added to a streak counting 1 and it counts 2
PastEntryRaisedCurrentStreak ==
    /\ resp.op \in PostEntryOps
    /\ resp.status = 201
    /\ resp.rows[1].saveDate < Today(now)
    /\ Len(entries) >= 2
    /\ streaks[resp.id].currentStreak = Len(entries)

\* an entry dated after today was added and the streak counts fewer entries
\* than the entries before it alone
FutureEntryLoweredCurrentStreak ==
    /\ resp.op \in PostEntryOps
    /\ resp.status = 201
    /\ resp.rows[1].saveDate > Today(now)
    /\ streaks[resp.id].currentStreak <
          Progress(streaks[resp.id],
                   SelectSeq(entries, LAMBDA e : e.id # resp.rows[1].id),
                   now).currentStreak

-----------------------------------------------------------------------------
(* The create handlers of routes.ts and index.ts, sent bodies that name    *)
(* another owner.  Each forged body differs from the plain one in a second *)
(* field too, so that the row it produced can be told apart.               *)

ForgedExpense == [amount |-> 20, category |-> "food", date |-> 5, userId |-> "B"]
ForgedBudget == [category |-> "food", amount |-> 300, userId |-> "B"]
ForgedGoal == [title |-> "boat", targetAmount |-> 2000, userId |-> "B"]
ForgedStreak == [frequency |-> "weekly", userId |-> "B"]
ForgedEntry(today) == [amount |-> 275, saveDate |-> today, streakId |-> 99]

CreateExpenseBodies == {[amount |-> 10, category |-> "food", date |-> 5], ForgedExpense}
CreateBudgetBodies == {[category |-> "food", amount |-> 100], ForgedBudget}
CreateGoalBodies == {[title |-> "car", targetAmount |-> 1000], ForgedGoal}
CreateStreakBodies == {[frequency |-> "daily"], ForgedStreak}
CreateEntryBodies(today) == {[amount |-> 150, saveDate |-> today], ForgedEntry(today)}

CreateNext ==
    \/ \E u \in Users \cup {NoUser}, body \in CreateExpenseBodies : PostExpense(u, body)
    \/ \E u \in Users \cup {NoUser}, body \in CreateBudgetBodies : PostBudget(u, body)
    \/ \E u \in Users \cup {NoUser}, body \in CreateGoalBodies : PostGoal(u, body)
    \/ \E u \in Users \cup {NoUser}, body \in CreateStreakBodies :
          RowsCreated < MaxRows /\ PostStreak(u, body)
    \/ \E u \in Users \cup {NoUser}, id \in 1..nextStreakId,
          body \in CreateEntryBodies(Today(now)) : PostEntry(u, id, body)
    \/ \E u \in Users \cup {NoUser}, body \in CreateExpenseBodies :
          IndexPostExpense(u, body)
    \/ \E u \in Users \cup {NoUser}, body \in CreateBudgetBodies :
          IndexPostBudget(u, body)
    \/ \E u \in Users \cup {NoUser}, body \in CreateGoalBodies : IndexPostGoal(u, body)
    \/ \E u \in Users \cup {NoUser}, body \in CreateStreakBodies :
          IndexPostStreak(u, body)

SpecCreate == CrudInit /\ [][CreateNext]_vars

\* the rows of a table that a step has added
NewRows(before, after) == {after[i] : i \in DOMAIN after \ DOMAIN before}

-----------------------------------------------------------------------------
(* Updates and the owner of a row *)

OwnersKept(before, after) ==
    \A i \in DOMAIN before \cap DOMAIN after : after[i].userId = before[i].userId

\* C27: no update operation changes the owner of an entity: after any PUT
\* /api/expenses/:id, PUT /api/budgets/:id or PUT /api/goals/:id, whatever the
\* body (a body carrying a userId included), every row's userId is what it
\* was before the request
UpdateKeepsOwner ==
    [][resp'.op \in PutOps =>
          /\ OwnersKept(expenses, expenses')
          /\ OwnersKept(budgets, budgets')
          /\ OwnersKept(goals, goals')]_vars

\* a PUT answered 200 after which the row belongs to someone other than the
\* requester
UpdatedRowChangedOwner ==
    /\ resp.op = "PUT /api/expenses/:id"
    /\ resp.status = 200
    /\ resp.user \in Users
    /\ resp.id \in DOMAIN expenses
    /\ expenses[resp.id].userId # resp.user

-----------------------------------------------------------------------------
(* GET /api/auth/user of routes_old.ts.  The server has no registration of *)
(* its own: it starts on a user table and a session store filled earlier.  *)

UserRows ==
    [email : Emails, password : {HashPassword(p, salt) : p \in Passwords, salt \in Salts}]

\* users.email is unique
UserTables ==
    {t \in UNION {[S -> UserRows] : S \in SUBSET Users} :
        \A i \in DOMAIN t, j \in DOMAIN t : t[i].email = t[j].email => i = j}

OldAuthInit ==
    /\ app = "old"
    /\ now = 0
    /\ streaks = EmptyTable
    /\ entries = <<>>
    /\ nextStreakId = 1
    /\ nextEntryId = 1
    /\ expenses = EmptyTable
    /\ budgets = EmptyTable
    /\ goals = EmptyTable
    /\ nextExpenseId = 1
    /\ nextBudgetId = 1
    /\ nextGoalId = 1
    /\ procs = EmptyTable
    /\ users \in UserTables
    /\ sessions \in UNION {[S -> DOMAIN users] : S \in SUBSET Sids}
    /\ resp = NoResp

\* GET /api/auth/user (routes_old.ts): const user = await
\* storage.getUser(userId); res.json(user)
OldAuthUser(token) ==
    /\ app = "old"
    /\ LET op == "GET /api/auth/user"
           userId == SessionUser(token)
       IN  resp' = IF userId = NoUser
                   THEN AuthResp(op, token, EmptyTable, 401, "Unauthorized", NoUser)
                   ELSE Sending(AuthResp(op, token, EmptyTable, 200, "", userId),
                                [id |-> userId, email |-> users[userId].email,
                                 password |-> users[userId].password])
    /\ UNCHANGED <<users, sessions>>
    /\ AuthFrame

OldAuthNext == \E token \in Sids \cup {NoToken} : OldAuthUser(token)

SpecOldAuth == OldAuthInit /\ [][OldAuthNext]_vars

\* C28: no response of any endpoint contains a user's stored password hash:
\* the user object of a register, login or current-user answer carries no
\* password field
NoResponseCarriesPassword ==
    \A i \in 1..Len(resp.rows) : "password" \notin DOMAIN resp.rows[i]

\* a register, login or current-user answer that carries a user object
UserObjectSent ==
    /\ resp.op \in RegisterOps \cup LoginOps \cup MeOps
    /\ resp.rows # <<>>

-----------------------------------------------------------------------------
(* What a failed login tells *)

\* C29: a failed login reveals nothing about whether the email is
\* registered: the status and message answered to a login with an unknown
\* email are those answered to a login with a registered email and a wrong
\* password
FailedLoginsIndistinguishable ==
    \A unknown \in LoginBodies, wrong \in LoginBodies :
       /\ GetUserByEmail(unknown.email) = {}
       /\ GetUserByEmail(wrong.email) # {}
       /\ Verified(wrong) = {}
       => LoginAnswer(unknown) = LoginAnswer(wrong)

\* a login with a registered email and a wrong password has just been
\* refused while the other email is registered to nobody
WrongPasswordRefusedBesideUnknownEmail ==
    /\ resp.op \in LoginOps
    /\ resp.status = 401
    /\ GetUserByEmail(resp.body.email) # {}
    /\ \E email \in Emails : GetUserByEmail(email) = {}

\* req.body of a login: with a password, or with none
LoginAttempts == LoginBodies \cup {[email |-> email] : email \in Emails}

LoginNext ==
    \/ \E token \in Sids \cup {NoToken}, body \in RegisterBodies : IndexRegister(token, body)
    \/ \E token \in Sids \cup {NoToken}, body \in RegisterBodies : Register(token, body)
    \/ \E token \in Sids \cup {NoToken}, body \in LoginAttempts : Login(token, body)

SpecLogin == AuthInit /\ [][LoginNext]_vars

\* C29, every failed login: the status and message answered to a login that
\* fails are the same whether or not the email is registered
FailedLoginTellsNothing ==
    [][resp'.op \in LoginOps /\ resp'.status # 200 =>
          \A body \in LoginAttempts :
             /\ "password" \in DOMAIN body <=> "password" \in DOMAIN resp'.body
             /\ Verified(body) = {}
             => LoginAnswer(body) = <<resp'.status, resp'.message>>]_vars

\* index.ts answered 500 to a login that named a registered email and no
\* password
MissingPasswordTellsRegistered ==
    /\ resp.op \in LoginOps
    /\ resp.status = 500
    /\ GetUserByEmail(resp.body.email) # {}
    /\ \E email \in Emails : GetUserByEmail(email) = {}

-----------------------------------------------------------------------------
(* Two registrations in flight at once.  A handler gives up control at its *)
(* awaits: the lookup by email, the hashing, the INSERT.  The lookup and   *)
(* the INSERT are each atomic; the INSERT runs under the unique index on   *)
(* users.email.                                                            *)

RegProc(pc, body, status, userId) ==
    [pc |-> pc, body |-> body, status |-> status, user |-> userId]

RegOp == IF app = "index" THEN "POST /api/auth/register" ELSE "POST /api/register"

RegFrame ==
    /\ UNCHANGED <<app, now>>
    /\ UNCHANGED streakVars
    /\ UNCHANGED crudVars

UniqueIndexOff(email) == FALSE

\* email: text("email").unique(): the INSERT fails when a row has the email
UniqueViolation(email) == \E id \in DOMAIN users : users[id].email = email

\* the handler up to its first await; auth.ts refuses a body without
\* password before looking anything up
RegArrive(p, body) ==
    /\ p \notin DOMAIN procs
    /\ IF app = "routes" /\ "password" \notin DOMAIN body
       THEN /\ procs' = Put(procs, p, RegProc("done", body, 400, NoUser))
            /\ resp' = AuthResp(RegOp, NoToken, body, 400,
                                "Email e senha sao obrigatorios", NoUser)
       ELSE /\ procs' = Put(procs, p, RegProc("lookup", body, 0, NoUser))
            /\ UNCHANGED resp
    /\ UNCHANGED <<users, sessions>>
    /\ RegFrame

\* const existingUser = await ...where(eq(users.email, email)); then the
\* hashing, which index.ts fails on a missing password
RegLookup(p) ==
    /\ p \in DOMAIN procs
    /\ procs[p].pc = "lookup"
    /\ LET r == procs[p]
       IN  IF GetUserByEmail(r.body.email) # {}
           THEN /\ procs' = Put(procs, p, [r EXCEPT !.pc = "done",
                                  !.status = IF app = "index" THEN 409 ELSE 400])
                /\ resp' = AuthResp(RegOp, NoToken, r.body,
                                    IF app = "index" THEN 409 ELSE 400,
                                    IF app = "index" THEN "Email ja esta em uso"
                                    ELSE "Usuario ja existe com este email", NoUser)
           ELSE IF "password" \notin DOMAIN r.body
           THEN /\ procs' = Put(procs, p, [r EXCEPT !.pc = "done", !.status = 500])
                /\ resp' = AuthResp(RegOp, NoToken, r.body, 500,
                                    "Erro interno do servidor", NoUser)
           ELSE /\ procs' = Put(procs, p, [r EXCEPT !.pc = "insert"])
                /\ UNCHANGED resp
    /\ UNCHANGED <<users, sessions>>
    /\ RegFrame

\* db.insert(users).values({...}).returning(): the row is added, or the
\* statement throws and the catch block answers 500
RegInsert(p) ==
    /\ p \in DOMAIN procs
    /\ procs[p].pc = "insert"
    /\ LET r == procs[p]
       IN  IF UniqueViolation(r.body.email)
           THEN /\ procs' = Put(procs, p, [r EXCEPT !.pc = "done", !.status = 500])
                /\ resp' = AuthResp(RegOp, NoToken, r.body, 500,
                                    "Erro interno do servidor", NoUser)
                /\ UNCHANGED users
           ELSE \E id \in Users \ DOMAIN users, salt \in Salts :
                   /\ users' = Put(users, id,
                                   [email |-> r.body.email,
                                    password |-> HashPassword(r.body.password, salt)])
                   /\ procs' = Put(procs, p, [r EXCEPT !.pc = "respond", !.user = id])
                   /\ UNCHANGED resp
    /\ UNCHANGED sessions
    /\ RegFrame

\* res.status(201).json(...); auth.ts logs the new user in first (req.login)
RegRespond(p) ==
    /\ p \in DOMAIN procs
    /\ procs[p].pc = "respond"
    /\ LET r == procs[p]
       IN  /\ procs' = Put(procs, p, [r EXCEPT !.pc = "done", !.status = 201])
           /\ IF app = "index"
              THEN /\ UNCHANGED sessions
                   /\ resp' = Sending(AuthResp(RegOp, NoToken, r.body, 201,
                                               "Usuario criado com sucesso", r.user),
                                      PublicUser(r.user, users[r.user]))
              ELSE \E sid \in BoundSids(NoToken) :
                      /\ sessions' = Bind(NoToken, sid, r.user)
                      /\ resp' = Sending(AuthResp(RegOp, sid, r.body, 201, "", r.user),
                                         PublicUser(r.user, users[r.user]))
    /\ UNCHANGED users
    /\ RegFrame

RegNext ==
    \/ \E p \in RaceProcs, body \in RegisterBodies : RegArrive(p, body)
    \/ \E p \in RaceProcs : RegLookup(p)
    \/ \E p \in RaceProcs : RegInsert(p)
    \/ \E p \in RaceProcs : RegRespond(p)

SpecRegisterRace == AuthInit /\ [][RegNext]_vars

\* C30: in every reachable state at most one user row exists per email,
\* also when two registrations with one email are interleaved so that both
\* run their existence check before either inserts
AtMostOneUserPerEmail ==
    \A i \in DOMAIN users, j \in DOMAIN users :
       users[i].email = users[j].email => i = j

\* both registrations named one email and passed the existence check; one
\* was answered 201 and the INSERT of the other was rejected
SecondInsertRejected ==
    /\ AllDone
    /\ procs[1].body.email = procs[2].body.email
    /\ {procs[1].status, procs[2].status} = {201, 500}
    /\ \A p \in RaceProcs : "password" \in DOMAIN procs[p].body
    /\ Cardinality(DOMAIN users) = 1

=============================================================================
